---- MODULE Spec2Model ----
(***************************************************************************)
(* Single-tape Turing machine: the engine and the localStorage functions   *)
(* of src/src/lib/tm.ts, the editor of                                     *)
(* src/src/components/TuringMachineSpec.tsx, and the drivers of            *)
(* src/src/App.tsx and src/unnamed/part_001.                               *)
(*                                                                         *)
(* Representation.  A JS string is a sequence of one-character strings     *)
(* (its UTF-16 code units), a Symbol[] array is a sequence, and the        *)
(* 0-based index k of an array is position k + 1 of the sequence.  Arrays  *)
(* are heap objects: `tapes` maps an address (1, 2, ...) to the array's    *)
(* contents, and a runtime holds the address of its tape, so that two      *)
(* runtimes holding the same address share one array.  The blank symbol    *)
(* of the example machines is written "_" here.                            *)
(***************************************************************************)
EXTENDS Integers, Sequences, FiniteSets, TLC

VARIABLES
    spec,      \* the TuringMachineSpec handed to createRuntime (the driver's tmSpec)
    input,     \* the input string handed to createRuntime (the driver's input)
    tapes,     \* heap of Symbol[] arrays, indexed by address
    rts,       \* the TMRuntime objects, by name
    created,   \* outcome of createRuntime per runtime name
    ret,       \* return value of the last step call per runtime (once calls > 0)
    calls,     \* number of step calls made on each runtime
    liveCalls, \* number of those made while the runtime was not halted
    moves,     \* number of direct move calls made
    op,        \* the last operation applied: [name, rt, dir]
    reason,    \* the branch of step that halted each runtime, "" while none has
    formData,  \* the editor's form
    built,     \* outcome of the editor's last build: "none", "ok" or "error"
    stored,    \* the localStorage item 'turing-machine-spec'
    file,      \* the file chosen in the editor's load dialog
    loaded,    \* where the form's contents were last loaded from
    app,       \* the driver in use: "App.tsx" or "part_001", "" without a driver
    runtime,   \* the driver's runtime: a name in RtIds, or "null"
    statusMessage, \* the driver's status message, by kind
    isRunning,     \* the driver's isRunning flag
    runTimeout,    \* part_001's runTimeout: the run timer it knows of, "null" when none
    timers         \* the pending runStep timers, each named by the runtime object
                   \* that its callback has captured

editorVars == <<formData, built, stored, file, loaded>>

driverVars == <<app, runtime, statusMessage, isRunning, runTimeout, timers>>

vars == <<spec, input, tapes, rts, created, ret, calls, liveCalls, moves, op, reason,
          formData, built, stored, file, loaded,
          app, runtime, statusMessage, isRunning, runTimeout, timers>>

----------------------------------------------------------------------------
(* Bounds *)

MaxInputLen == 2
MaxCalls == 4
MaxMoves == 2
MaxExampleLen == 3
MaxRunCalls == 10
MaxTransitions == 3
MaxEditedTuples == 1
MaxHaltingLen == 1
MaxHaltingCalls == 1
MaxDriverCalls == 2

----------------------------------------------------------------------------
(* Types of tm.ts *)

Direction == {"L", "R", "S"}

Blank == "_"

Chars == {"0", "1", Blank}

States == {"q0", "q1", "qAccept", "qReject"}

Transition(n, w, m) == [nextState |-> n, write |-> w, move |-> m]

Transitions == [nextState : States, write : Chars, move : Direction]

\* an object without own properties
EmptyRow == [x \in {} |-> Transition("q0", Blank, "S")]

\* the two runtimes of the program
RtIds == {"a", "b"}

\* a variable holding null instead of a TMRuntime
NullRt == [tape |-> 0, head |-> 0, state |-> "", steps |-> 0]

----------------------------------------------------------------------------
(* Machines *)

BinaryIncrementDelta ==
    [q0 |-> ("0" :> Transition("q0", "0", "R")
          @@ "1" :> Transition("q0", "1", "R")
          @@ Blank :> Transition("q1", Blank, "L")),
     q1 |-> ("0" :> Transition("qAccept", "1", "S")
          @@ "1" :> Transition("q1", "0", "L")
          @@ Blank :> Transition("qAccept", "1", "S"))]

InfiniteLoopDelta ==
    [q0 |-> ("0" :> Transition("q0", "0", "R")
          @@ Blank :> Transition("q0", Blank, "L"))]

\* a table with the single rule (q, a) -> t
OneRuleDeltas ==
    { (q :> (a :> t)) : q \in {"q0"}, a \in Chars, t \in Transitions }

\* a table with two rules out of q0 that both stay in q0
TwoRuleDeltas ==
    { ("q0" :> ((p[1] :> Transition("q0", w1, m1)) @@ (p[2] :> Transition("q0", w2, m2)))) :
        p \in {<<"0", "1">>, <<"0", Blank>>, <<"1", Blank>>},
        w1 \in Chars, m1 \in Direction, w2 \in Chars, m2 \in Direction }

Deltas ==
    {BinaryIncrementDelta, InfiniteLoopDelta, EmptyRow}
        \cup OneRuleDeltas \cup TwoRuleDeltas

\* input alphabets; the last one contains the blank
Sigmas == { {"0", "1"}, {"0"}, {"0", Blank} }

StartStates == {"q0", "qAccept"}

Specs ==
    [Q : {States}, Sigma : Sigmas, Gamma : {Chars}, delta : Deltas,
     q0 : StartStates, qAccept : {"qAccept"}, qReject : {"qReject"},
     blank : {Blank}]

RECURSIVE StringsUpTo(_)
StringsUpTo(n) ==
    IF n = 0 THEN { <<>> }
    ELSE StringsUpTo(n - 1)
            \cup { Append(s, c) : s \in { t \in StringsUpTo(n - 1) : Len(t) = n - 1 },
                                  c \in Chars }

Inputs == StringsUpTo(MaxInputLen)

----------------------------------------------------------------------------
(* The editor's form and the machine built from it *)

FormTransition(f, r, t, w, d) ==
    [fromState |-> f, readSymbol |-> r, toState |-> t, writeSymbol |-> w, direction |-> d]

\* new Set(array)
SetOf(array) == { array[k] : k \in 1..Len(array) }

\* a table in which the first tuple entered for a key stays
RECURSIVE deltaOfFirst_firstWins(_, _)
deltaOfFirst_firstWins(transitions, k) ==
    IF k = 0 THEN EmptyRow
    ELSE LET d == deltaOfFirst_firstWins(transitions, k - 1)
             t == transitions[k]
             row == IF t.fromState \in DOMAIN d THEN d[t.fromState] ELSE EmptyRow
             newRow == [a \in DOMAIN row \cup {t.readSymbol} |->
                          IF a \in DOMAIN row
                          THEN row[a]
                          ELSE Transition(t.toState, t.writeSymbol, t.direction)]
         IN  [q \in DOMAIN d \cup {t.fromState} |->
                 IF q = t.fromState THEN newRow ELSE d[q]]

\* the table after the first k tuples of the list have been entered
RECURSIVE deltaOfFirst(_, _)
deltaOfFirst(transitions, k) ==
    IF k = 0 THEN EmptyRow
    ELSE LET d == deltaOfFirst(transitions, k - 1)
             t == transitions[k]
             row == IF t.fromState \in DOMAIN d THEN d[t.fromState] ELSE EmptyRow
             newRow == [a \in DOMAIN row \cup {t.readSymbol} |->
                          IF a = t.readSymbol
                          THEN Transition(t.toState, t.writeSymbol, t.direction)
                          ELSE row[a]]
         IN  [q \in DOMAIN d \cup {t.fromState} |->
                 IF q = t.fromState THEN newRow ELSE d[q]]

buildTuringMachineSpec(fd) ==
    [Q |-> SetOf(fd.states),
     Sigma |-> SetOf(fd.inputAlphabet),
     Gamma |-> SetOf(fd.tapeAlphabet),
     delta |-> deltaOfFirst(fd.transitions, Len(fd.transitions)),
     q0 |-> fd.startState,
     qAccept |-> fd.acceptState,
     qReject |-> fd.rejectState,
     blank |-> fd.blankSymbol]

\* loadExample("binary-increment")
BinaryIncrementForm ==
    [states |-> <<"q0", "q1", "qAccept", "qReject">>,
     inputAlphabet |-> <<"0", "1">>,
     tapeAlphabet |-> <<"0", "1", Blank>>,
     blankSymbol |-> Blank,
     startState |-> "q0",
     acceptState |-> "qAccept",
     rejectState |-> "qReject",
     transitions |-> <<FormTransition("q0", "0", "q0", "0", "R"),
                       FormTransition("q0", "1", "q0", "1", "R"),
                       FormTransition("q0", Blank, "q1", Blank, "L"),
                       FormTransition("q1", "0", "qAccept", "1", "S"),
                       FormTransition("q1", "1", "q1", "0", "L"),
                       FormTransition("q1", Blank, "qAccept", "1", "S")>>]

\* loadExample("infinite-loop")
InfiniteLoopForm ==
    [states |-> <<"q0", "qAccept", "qReject">>,
     inputAlphabet |-> <<"0">>,
     tapeAlphabet |-> <<"0", Blank>>,
     blankSymbol |-> Blank,
     startState |-> "q0",
     acceptState |-> "qAccept",
     rejectState |-> "qReject",
     transitions |-> <<FormTransition("q0", "0", "q0", "0", "R"),
                       FormTransition("q0", Blank, "q0", Blank, "L")>>]

\* the form the editor starts with
DefaultForm ==
    [states |-> <<"q0", "q1", "qAccept", "qReject">>,
     inputAlphabet |-> <<"0", "1">>,
     tapeAlphabet |-> <<"0", "1", Blank>>,
     blankSymbol |-> Blank,
     startState |-> "q0",
     acceptState |-> "qAccept",
     rejectState |-> "qReject",
     transitions |-> <<>>]

\* Array.from(set), and Object.keys(table), in the model's fixed order
RECURSIVE ArrayFrom(_)
ArrayFrom(S) ==
    IF S = {} THEN <<>>
    ELSE LET x == CHOOSE y \in S : TRUE IN <<x>> \o ArrayFrom(S \ {x})

\* the tuples Object.entries(row) yields for the symbols listed
RECURSIVE rowTransitions(_, _, _)
rowTransitions(fromState, row, symbols) ==
    IF symbols = <<>> THEN <<>>
    ELSE LET a == Head(symbols)
         IN  <<FormTransition(fromState, a, row[a].nextState, row[a].write, row[a].move)>>
                \o rowTransitions(fromState, row, Tail(symbols))

\* Object.entries(delta).flatMap(...) over the states listed
RECURSIVE tableTransitions(_, _)
tableTransitions(d, states) ==
    IF states = <<>> THEN <<>>
    ELSE rowTransitions(Head(states), d[Head(states)], ArrayFrom(DOMAIN d[Head(states)]))
            \o tableTransitions(d, Tail(states))

\* the tuple list the editor shows for a table
transitionsOf(d) == tableTransitions(d, ArrayFrom(DOMAIN d))

\* the tuples a user enters in the bounded forms.  State names and symbols
\* are ordinary identifiers: a name that is also a member of
\* Object.prototype (such as __proto__), for which delta[name] is not an own
\* property of the table, is outside this family.
FormTuples ==
    { FormTransition(f, r, t, "1", d) :
        f \in {"q0", "q1"}, r \in {"0", "1"}, t \in {"q0", "qAccept"}, d \in {"L", "R"} }

RECURSIVE ListsUpTo(_, _)
ListsUpTo(S, n) ==
    IF n = 0 THEN { <<>> }
    ELSE ListsUpTo(S, n - 1)
            \cup { Append(l, x) : l \in { t \in ListsUpTo(S, n - 1) : Len(t) = n - 1 },
                                  x \in S }

\* the default form with every tuple list of up to MaxTransitions tuples
EditedTransitions ==
    { [DefaultForm EXCEPT !.transitions = l] : l \in ListsUpTo(FormTuples, MaxTransitions) }

\* forms whose state list or alphabets have been edited, with up to MaxEditedTuples tuples
EditedLists ==
    { [DefaultForm EXCEPT !.states = q, !.inputAlphabet = s, !.tapeAlphabet = g,
                          !.transitions = l] :
        q \in { <<"q0", "q1", "qAccept", "qReject">>, <<"q0", "qAccept", "qReject">>,
                <<"q0", "q1", "qReject">>, <<"q0", "q1", "qAccept">>,
                <<"q1", "qAccept", "qReject">> },
        s \in { <<"0", "1">>, <<"0", Blank>> },
        g \in { <<"0", "1", Blank>>, <<"0", "1">>, <<"0", Blank>> },
        l \in ListsUpTo(FormTuples, MaxEditedTuples) }

Forms == EditedTransitions \cup EditedLists \cup {BinaryIncrementForm, InfiniteLoopForm}

----------------------------------------------------------------------------
(* Persistence: the tm-local-storage part of src/src/lib/tm.ts             *)
(*                                                                         *)
(* A JSON text is represented by what JSON.parse makes of it: `kind` is    *)
(* "absent" (no item, or the empty string), "invalid" (not JSON), "null"   *)
(* (JSON that is not an object) or "object", and `obj` then holds the      *)
(* object's properties.  A property that holds a collection is a value of  *)
(* kind "array", "object" (an object that is not an array), "set" (a JS    *)
(* Set, before JSON.stringify) or "undefined" (the property is missing).   *)
(* Sets and tables keep no insertion order in this model: Array.from and   *)
(* Object.entries enumerate in one fixed order.                            *)

JArray(items) == [kind |-> "array", items |-> items]

JSet(items) == [kind |-> "set", items |-> items]

JObject == [kind |-> "object", items |-> <<>>]

JUndefined == [kind |-> "undefined", items |-> <<>>]

JTable(d) == [kind |-> "object", table |-> d]

JNoTable == [kind |-> "undefined", table |-> EmptyRow]

\* JSON.stringify of one property holding a collection: an array is written
\* as an array, a Set as {}, and a missing property is left out
stringifyCollection(v) ==
    IF v.kind = "set" THEN JObject ELSE v

\* JSON.stringify(value) of an object with the properties of a specification
JSONstringify(value) ==
    [kind |-> "object",
     obj |-> [value EXCEPT !.Q = stringifyCollection(@),
                           !.Sigma = stringifyCollection(@),
                           !.Gamma = stringifyCollection(@)]]

\* JSON.stringify(spec): what serialization would store without Array.from
serializeTuringMachineSpec_plainStringify(s) ==
    JSONstringify([Q |-> JSet(ArrayFrom(s.Q)),
                   Sigma |-> JSet(ArrayFrom(s.Sigma)),
                   Gamma |-> JSet(ArrayFrom(s.Gamma)),
                   delta |-> JTable(s.delta),
                   q0 |-> s.q0, qAccept |-> s.qAccept, qReject |-> s.qReject,
                   blank |-> s.blank])

serializeTuringMachineSpec(s) ==
    JSONstringify([Q |-> JArray(ArrayFrom(s.Q)),
                   Sigma |-> JArray(ArrayFrom(s.Sigma)),
                   Gamma |-> JArray(ArrayFrom(s.Gamma)),
                   delta |-> JTable(s.delta),
                   q0 |-> s.q0, qAccept |-> s.qAccept, qReject |-> s.qReject,
                   blank |-> s.blank])

\* new Set(Array.isArray(v) ? v : [])
SetOfArray(v) == IF v.kind = "array" THEN SetOf(v.items) ELSE {}

\* the result of deserialization: `throws`, or the specification, whose
\* delta is undefined when deltaDefined is FALSE
deserializeTuringMachineSpec(data) ==
    IF data.kind # "object"
    THEN [throws |-> TRUE, deltaDefined |-> FALSE, spec |-> buildTuringMachineSpec(DefaultForm)]
    ELSE [throws |-> FALSE,
          deltaDefined |-> data.obj.delta.kind = "object",
          spec |-> [Q |-> SetOfArray(data.obj.Q),
                    Sigma |-> SetOfArray(data.obj.Sigma),
                    Gamma |-> SetOfArray(data.obj.Gamma),
                    delta |-> data.obj.delta.table,
                    q0 |-> data.obj.q0, qAccept |-> data.obj.qAccept,
                    qReject |-> data.obj.qReject, blank |-> data.obj.blank]]

\* the result of getTuringMachineSpec on a stored item: `null`, or the
\* deserialized specification
getTuringMachineSpec(item) ==
    IF item.kind = "absent" THEN [null |-> TRUE, deltaDefined |-> FALSE,
                                  spec |-> buildTuringMachineSpec(DefaultForm)]
    ELSE IF item.kind = "invalid" THEN [null |-> TRUE, deltaDefined |-> FALSE,
                                        spec |-> buildTuringMachineSpec(DefaultForm)]
    ELSE LET r == deserializeTuringMachineSpec(item)
         IN  [null |-> r.throws, deltaDefined |-> r.deltaDefined, spec |-> r.spec]

----------------------------------------------------------------------------
(* The engine *)

\* input.split(''): the array of the string's characters
split(str) == [k \in 1..Len(str) |-> str[k]]

\* variant: the array of an earlier call is handed out again
NewArray_shared(heap, contents) ==
    IF Len(heap) = 0 THEN Append(heap, contents) ELSE heap

\* a new array object on the heap; its address is the heap's new length
NewArray(heap, contents) == Append(heap, contents)

\* variant: the empty input yields an empty tape
createRuntime_emptyTape(s, in) ==
    IF \E k \in 1..Len(split(in)) : split(in)[k] \notin s.Sigma
    THEN [ok |-> FALSE, error |-> "SymbolNotInSigma", tape |-> <<>>, rt |-> NullRt]
    ELSE IF s.blank \in s.Sigma
    THEN [ok |-> FALSE, error |-> "BlankInSigma", tape |-> <<>>, rt |-> NullRt]
    ELSE [ok |-> TRUE, error |-> "",
          tape |-> split(in),
          rt |-> [tape |-> 0, head |-> 0, state |-> s.q0, steps |-> 0]]

\* variant: the input characters are not looked for in Sigma
createRuntime_noCharCheck(s, in) ==
    IF s.blank \in s.Sigma
    THEN [ok |-> FALSE, error |-> "BlankInSigma", tape |-> <<>>, rt |-> NullRt]
    ELSE [ok |-> TRUE, error |-> "",
          tape |-> IF Len(in) # 0 THEN split(in) ELSE <<s.blank>>,
          rt |-> [tape |-> 0, head |-> 0, state |-> s.q0, steps |-> 0]]

\* variant: the blank is not looked for in Sigma
createRuntime_noBlankCheck(s, in) ==
    IF \E k \in 1..Len(split(in)) : split(in)[k] \notin s.Sigma
    THEN [ok |-> FALSE, error |-> "SymbolNotInSigma", tape |-> <<>>, rt |-> NullRt]
    ELSE [ok |-> TRUE, error |-> "",
          tape |-> IF Len(in) # 0 THEN split(in) ELSE <<s.blank>>,
          rt |-> [tape |-> 0, head |-> 0, state |-> s.q0, steps |-> 0]]

\* variant: the blank is looked for in Sigma once per input character
createRuntime_blankCheckInLoop(s, in) ==
    IF \E k \in 1..Len(split(in)) : split(in)[k] \notin s.Sigma
    THEN [ok |-> FALSE, error |-> "SymbolNotInSigma", tape |-> <<>>, rt |-> NullRt]
    ELSE IF Len(in) # 0 /\ s.blank \in s.Sigma
    THEN [ok |-> FALSE, error |-> "BlankInSigma", tape |-> <<>>, rt |-> NullRt]
    ELSE [ok |-> TRUE, error |-> "",
          tape |-> IF Len(in) # 0 THEN split(in) ELSE <<s.blank>>,
          rt |-> [tape |-> 0, head |-> 0, state |-> s.q0, steps |-> 0]]

createRuntime(s, in) ==
    IF \E k \in 1..Len(split(in)) : split(in)[k] \notin s.Sigma
    THEN [ok |-> FALSE, error |-> "SymbolNotInSigma", tape |-> <<>>, rt |-> NullRt]
    ELSE IF s.blank \in s.Sigma
    THEN [ok |-> FALSE, error |-> "BlankInSigma", tape |-> <<>>, rt |-> NullRt]
    ELSE [ok |-> TRUE, error |-> "",
          tape |-> IF Len(in) # 0 THEN split(in) ELSE <<s.blank>>,
          rt |-> [tape |-> 0, head |-> 0, state |-> s.q0, steps |-> 0]]

\* the createRuntime of src/unnamed/part_000, which validates nothing
createRuntime_part000(s, in) ==
    [ok |-> TRUE, error |-> "",
     tape |-> IF Len(in) # 0 THEN split(in) ELSE <<s.blank>>,
     rt |-> [tape |-> 0, head |-> 0, state |-> s.q0, steps |-> 0]]

\* rt: the runtime's fields; tape: the contents of the array rt.tape points to
read(rt, tape) ==
    IF rt.head >= 0 /\ rt.head < Len(tape) THEN tape[rt.head + 1] ELSE spec.blank

\* variant: the symbol is not stored
write_dropped(rt, tape, s) == tape

\* rt.tape[rt.head] = s; yields the array's new contents
write(rt, tape, s) ==
    IF rt.head >= 0 /\ rt.head < Len(tape) THEN [tape EXCEPT ![rt.head + 1] = s]
    ELSE IF rt.head = Len(tape) THEN Append(tape, s)
    ELSE tape

\* variant: no cell is prepended when the head leaves the tape on the left
move_noLeftGrowth(rt, tape, dir) ==
    IF dir = "L" THEN
        IF rt.head - 1 < 0
        THEN [rt |-> [rt EXCEPT !.head = 0], tape |-> tape]
        ELSE [rt |-> [rt EXCEPT !.head = rt.head - 1], tape |-> tape]
    ELSE IF dir = "R" THEN
        IF rt.head + 1 >= Len(tape)
        THEN [rt |-> [rt EXCEPT !.head = rt.head + 1], tape |-> Append(tape, spec.blank)]
        ELSE [rt |-> [rt EXCEPT !.head = rt.head + 1], tape |-> tape]
    ELSE [rt |-> rt, tape |-> tape]

\* variant: the right end is tested with > instead of >=
move_lateRightGrowth(rt, tape, dir) ==
    IF dir = "L" THEN
        IF rt.head - 1 < 0
        THEN [rt |-> [rt EXCEPT !.head = 0], tape |-> <<spec.blank>> \o tape]
        ELSE [rt |-> [rt EXCEPT !.head = rt.head - 1], tape |-> tape]
    ELSE IF dir = "R" THEN
        IF rt.head + 1 > Len(tape)
        THEN [rt |-> [rt EXCEPT !.head = rt.head + 1], tape |-> Append(tape, spec.blank)]
        ELSE [rt |-> [rt EXCEPT !.head = rt.head + 1], tape |-> tape]
    ELSE [rt |-> rt, tape |-> tape]

\* move that pushes a blank when the direction is Stay
move_stayGrows(rt, tape, dir) ==
    IF dir = "L" THEN
        IF rt.head - 1 < 0
        THEN [rt |-> [rt EXCEPT !.head = 0], tape |-> <<spec.blank>> \o tape]
        ELSE [rt |-> [rt EXCEPT !.head = rt.head - 1], tape |-> tape]
    ELSE IF dir = "R" THEN
        IF rt.head + 1 >= Len(tape)
        THEN [rt |-> [rt EXCEPT !.head = rt.head + 1], tape |-> Append(tape, spec.blank)]
        ELSE [rt |-> [rt EXCEPT !.head = rt.head + 1], tape |-> tape]
    ELSE [rt |-> rt, tape |-> Append(tape, spec.blank)]

\* yields the runtime's new fields and the array's new contents
move(rt, tape, dir) ==
    IF dir = "L" THEN
        IF rt.head - 1 < 0
        THEN [rt |-> [rt EXCEPT !.head = 0], tape |-> <<spec.blank>> \o tape]
        ELSE [rt |-> [rt EXCEPT !.head = rt.head - 1], tape |-> tape]
    ELSE IF dir = "R" THEN
        IF rt.head + 1 >= Len(tape)
        THEN [rt |-> [rt EXCEPT !.head = rt.head + 1], tape |-> Append(tape, spec.blank)]
        ELSE [rt |-> [rt EXCEPT !.head = rt.head + 1], tape |-> tape]
    ELSE [rt |-> rt, tape |-> tape]

isHalting(q) == q = spec.qAccept \/ q = spec.qReject

stateRow(q) == IF q \in DOMAIN spec.delta THEN spec.delta[q] ELSE EmptyRow

\* variant: the row is indexed with the state instead of the symbol read
hasTransition_byState(rt, tape) == rt.state \in DOMAIN stateRow(rt.state)

hasTransition(rt, tape) == read(rt, tape) \in DOMAIN stateRow(rt.state)

\* variant: an implicit reject does not count as a step
step_rejectUncounted(rt, tape) ==
    IF isHalting(rt.state) THEN [rt |-> rt, tape |-> tape, ret |-> FALSE]
    ELSE IF ~hasTransition(rt, tape)
    THEN [rt |-> [rt EXCEPT !.state = spec.qReject], tape |-> tape, ret |-> FALSE]
    ELSE LET tr == stateRow(rt.state)[read(rt, tape)]
             m == move(rt, write(rt, tape, tr.write), tr.move)
         IN  [rt |-> [m.rt EXCEPT !.state = tr.nextState, !.steps = rt.steps + 1],
              tape |-> m.tape,
              ret |-> ~isHalting(tr.nextState)]

\* variant: a call on a halted runtime counts as a step
step_haltedCounted(rt, tape) ==
    IF isHalting(rt.state)
    THEN [rt |-> [rt EXCEPT !.steps = rt.steps + 1], tape |-> tape, ret |-> FALSE]
    ELSE IF ~hasTransition(rt, tape)
    THEN [rt |-> [rt EXCEPT !.state = spec.qReject, !.steps = rt.steps + 1],
          tape |-> tape, ret |-> FALSE]
    ELSE LET tr == stateRow(rt.state)[read(rt, tape)]
             m == move(rt, write(rt, tape, tr.write), tr.move)
         IN  [rt |-> [m.rt EXCEPT !.state = tr.nextState, !.steps = rt.steps + 1],
              tape |-> m.tape,
              ret |-> ~isHalting(tr.nextState)]

\* variant: a transition into a halting state does not count as a step
step_lastUncounted(rt, tape) ==
    IF isHalting(rt.state) THEN [rt |-> rt, tape |-> tape, ret |-> FALSE]
    ELSE IF ~hasTransition(rt, tape)
    THEN [rt |-> [rt EXCEPT !.state = spec.qReject, !.steps = rt.steps + 1],
          tape |-> tape, ret |-> FALSE]
    ELSE LET tr == stateRow(rt.state)[read(rt, tape)]
             m == move(rt, write(rt, tape, tr.write), tr.move)
         IN  [rt |-> [m.rt EXCEPT !.state = tr.nextState,
                                  !.steps = IF isHalting(tr.nextState)
                                            THEN rt.steps ELSE rt.steps + 1],
              tape |-> m.tape,
              ret |-> ~isHalting(tr.nextState)]

\* step that blanks the cell under the head when it finds no transition
step_rejectErases(rt, tape) ==
    IF isHalting(rt.state) THEN [rt |-> rt, tape |-> tape, ret |-> FALSE]
    ELSE IF ~hasTransition(rt, tape)
    THEN [rt |-> [rt EXCEPT !.state = spec.qReject, !.steps = rt.steps + 1],
          tape |-> write(rt, tape, spec.blank), ret |-> FALSE]
    ELSE LET tr == stateRow(rt.state)[read(rt, tape)]
             m == move(rt, write(rt, tape, tr.write), tr.move)
         IN  [rt |-> [m.rt EXCEPT !.state = tr.nextState, !.steps = rt.steps + 1],
              tape |-> m.tape,
              ret |-> ~isHalting(tr.nextState)]

\* step with a result computed from the state before the transition
step_staleReturn(rt, tape) ==
    IF isHalting(rt.state) THEN [rt |-> rt, tape |-> tape, ret |-> FALSE]
    ELSE IF ~hasTransition(rt, tape)
    THEN [rt |-> [rt EXCEPT !.state = spec.qReject, !.steps = rt.steps + 1],
          tape |-> tape, ret |-> FALSE]
    ELSE LET tr == stateRow(rt.state)[read(rt, tape)]
             m == move(rt, write(rt, tape, tr.write), tr.move)
         IN  [rt |-> [m.rt EXCEPT !.state = tr.nextState, !.steps = rt.steps + 1],
              tape |-> m.tape,
              ret |-> ~isHalting(rt.state)]

step(rt, tape) ==
    IF isHalting(rt.state) THEN [rt |-> rt, tape |-> tape, ret |-> FALSE]
    ELSE IF ~hasTransition(rt, tape)
    THEN [rt |-> [rt EXCEPT !.state = spec.qReject, !.steps = rt.steps + 1],
          tape |-> tape, ret |-> FALSE]
    ELSE LET tr == stateRow(rt.state)[read(rt, tape)]
             m == move(rt, write(rt, tape, tr.write), tr.move)
         IN  [rt |-> [m.rt EXCEPT !.state = tr.nextState, !.steps = rt.steps + 1],
              tape |-> m.tape,
              ret |-> ~isHalting(tr.nextState)]

\* the branch of step that a call on rt takes when it halts the runtime:
\* "noRule" (no transition), "reject" or "accept" (a transition into that
\* state); `before` when the call halts nothing
haltReason(rt, tape, before) ==
    IF isHalting(rt.state) THEN before
    ELSE IF ~hasTransition(rt, tape) THEN "noRule"
    ELSE LET tr == stateRow(rt.state)[read(rt, tape)]
         IN  IF tr.nextState = spec.qAccept THEN "accept"
             ELSE IF tr.nextState = spec.qReject THEN "reject"
             ELSE before

----------------------------------------------------------------------------
(* Operations *)

NoOp == [name |-> "none", rt |-> "", dir |-> ""]

\* no stored item, no chosen file
NoItem == [kind |-> "absent", obj |-> serializeTuringMachineSpec(buildTuringMachineSpec(DefaultForm)).obj]

\* the editor before anything was entered, stored or loaded
EditorIdle ==
    /\ formData = DefaultForm
    /\ built = "none"
    /\ stored = NoItem
    /\ file = NoItem
    /\ loaded = ""

\* no driver
DriverIdle ==
    /\ app = ""
    /\ runtime = "null"
    /\ statusMessage = ""
    /\ isRunning = FALSE
    /\ runTimeout = "null"
    /\ timers = {}

\* no runtime created, no call made
EngineIdle ==
    /\ tapes = <<>>
    /\ rts = [i \in RtIds |-> NullRt]
    /\ created = [i \in RtIds |-> "none"]
    /\ ret = [i \in RtIds |-> FALSE]
    /\ calls = [i \in RtIds |-> 0]
    /\ liveCalls = [i \in RtIds |-> 0]
    /\ moves = 0
    /\ op = NoOp
    /\ reason = [i \in RtIds |-> ""]

Init ==
    /\ spec \in Specs
    /\ input \in Inputs
    /\ tapes = <<>>
    /\ rts = [i \in RtIds |-> NullRt]
    /\ created = [i \in RtIds |-> "none"]
    /\ ret = [i \in RtIds |-> FALSE]
    /\ calls = [i \in RtIds |-> 0]
    /\ liveCalls = [i \in RtIds |-> 0]
    /\ moves = 0
    /\ op = NoOp
    /\ reason = [i \in RtIds |-> ""]
    /\ EditorIdle
    /\ DriverIdle

\* the caller evaluates createRuntime(spec, input) and keeps the result as runtime i
CreateRuntime(i) ==
    /\ created[i] = "none"
    /\ LET r == createRuntime(spec, input)
       IN  IF r.ok
           THEN /\ tapes' = NewArray(tapes, r.tape)
                /\ rts' = [rts EXCEPT ![i] = [r.rt EXCEPT !.tape = Len(tapes')]]
                /\ created' = [created EXCEPT ![i] = "ok"]
           ELSE /\ created' = [created EXCEPT ![i] = r.error]
                /\ UNCHANGED <<tapes, rts>>
    /\ op' = [name |-> "createRuntime", rt |-> i, dir |-> ""]
    /\ UNCHANGED <<spec, input, ret, calls, liveCalls, moves, reason, editorVars, driverVars>>

\* the caller evaluates step(rts[i])
StepCall(i) ==
    /\ created[i] = "ok"
    /\ LET r == step(rts[i], tapes[rts[i].tape])
       IN  /\ rts' = [rts EXCEPT ![i] = r.rt]
           /\ tapes' = [tapes EXCEPT ![rts[i].tape] = r.tape]
           /\ ret' = [ret EXCEPT ![i] = r.ret]
    /\ calls' = [calls EXCEPT ![i] = calls[i] + 1]
    /\ liveCalls' = [liveCalls EXCEPT
                        ![i] = IF isHalting(rts[i].state) THEN @ ELSE @ + 1]
    /\ reason' = [reason EXCEPT ![i] = haltReason(rts[i], tapes[rts[i].tape], @)]
    /\ op' = [name |-> "step", rt |-> i, dir |-> ""]
    /\ UNCHANGED <<spec, input, created, moves, editorVars, driverVars>>

\* a step call, as long as the caller has made fewer than MaxCalls of them
Step(i) == calls[i] < MaxCalls /\ StepCall(i)

\* one runtime, created and stepped
Next == CreateRuntime("a") \/ Step("a")

Spec == Init /\ [][Next]_vars

\* two runtimes created independently from the same spec and input
NextPair == \E i \in RtIds : CreateRuntime(i) \/ Step(i)

SpecPair == Init /\ [][NextPair]_vars

\* the caller keeps the result of part_000's createRuntime as runtime i
CreateRuntime_part000(i) ==
    /\ created[i] = "none"
    /\ LET r == createRuntime_part000(spec, input)
       IN  /\ tapes' = NewArray(tapes, r.tape)
           /\ rts' = [rts EXCEPT ![i] = [r.rt EXCEPT !.tape = Len(tapes')]]
           /\ created' = [created EXCEPT ![i] = "ok"]
    /\ op' = [name |-> "createRuntime_part000", rt |-> i, dir |-> ""]
    /\ UNCHANGED <<spec, input, ret, calls, liveCalls, moves, reason, editorVars, driverVars>>

\* the caller evaluates the exported move(rts[i], d)
Move(i, d) ==
    /\ created[i] = "ok"
    /\ moves < MaxMoves
    /\ LET m == move(rts[i], tapes[rts[i].tape], d)
       IN  /\ rts' = [rts EXCEPT ![i] = m.rt]
           /\ tapes' = [tapes EXCEPT ![rts[i].tape] = m.tape]
    /\ moves' = moves + 1
    /\ op' = [name |-> "move", rt |-> i, dir |-> d]
    /\ UNCHANGED <<spec, input, created, ret, calls, liveCalls, reason, editorVars, driverVars>>

\* the exported functions called directly, in any order
NextOps ==
    \/ CreateRuntime("a")
    \/ CreateRuntime_part000("a")
    \/ Step("a")
    \/ \E d \in Direction : Move("a", d)

\* the example machines and the machine without rules
InitOps == Init /\ spec.delta \in {BinaryIncrementDelta, InfiniteLoopDelta, EmptyRow}

SpecOps == InitOps /\ [][NextOps]_vars

\* tape alphabets: the full one, one without "1", one without the blank
Gammas == { Chars, {"0", Blank}, {"0", "1"} }

\* the data-model invariants of a TuringMachineSpec that concern the tape
\* alphabet: Sigma within Gamma, blank in Gamma, every written symbol in Gamma
WellFormedGamma(s) ==
    /\ s.Sigma \subseteq s.Gamma
    /\ s.blank \in s.Gamma
    /\ \A q \in DOMAIN s.delta : \A a \in DOMAIN s.delta[q] :
            s.delta[q][a].write \in s.Gamma

\* machines with at most one rule and the example machines, over every tape alphabet
InitGamma ==
    /\ spec \in { [t EXCEPT !.Gamma = g] :
                    t \in { u \in Specs : u.delta \notin TwoRuleDeltas }, g \in Gammas }
    /\ input \in Inputs
    /\ tapes = <<>>
    /\ rts = [i \in RtIds |-> NullRt]
    /\ created = [i \in RtIds |-> "none"]
    /\ ret = [i \in RtIds |-> FALSE]
    /\ calls = [i \in RtIds |-> 0]
    /\ liveCalls = [i \in RtIds |-> 0]
    /\ moves = 0
    /\ op = NoOp
    /\ reason = [i \in RtIds |-> ""]
    /\ EditorIdle
    /\ DriverIdle

SpecGamma == InitGamma /\ [][Next]_vars

\* the example machines, built from their forms, on every input up to MaxExampleLen
InitExamples ==
    /\ spec \in { buildTuringMachineSpec(BinaryIncrementForm),
                   buildTuringMachineSpec(InfiniteLoopForm) }
    /\ input \in StringsUpTo(MaxExampleLen)
    /\ tapes = <<>>
    /\ rts = [i \in RtIds |-> NullRt]
    /\ created = [i \in RtIds |-> "none"]
    /\ ret = [i \in RtIds |-> FALSE]
    /\ calls = [i \in RtIds |-> 0]
    /\ liveCalls = [i \in RtIds |-> 0]
    /\ moves = 0
    /\ op = NoOp
    /\ reason = [i \in RtIds |-> ""]
    /\ EditorIdle
    /\ DriverIdle

\* a step call of a driver that stops after MaxRunCalls calls
RunStep(i) == calls[i] < MaxRunCalls /\ StepCall(i)

NextExamples == CreateRuntime("a") \/ RunStep("a")

SpecExamples == InitExamples /\ [][NextExamples]_vars

\* the user types another input: App.tsx's input field, or a caller of the
\* engine that picks the input of its next createRuntime call
SetInput(in) ==
    /\ app \in {"", "App.tsx"}
    /\ input' = in
    /\ op' = [name |-> "setInput", rt |-> "", dir |-> ""]
    /\ UNCHANGED <<spec, tapes, rts, created, ret, calls, liveCalls, moves, reason,
                   editorVars, driverVars>>

\* machines whose one rule leaves q0 for the accept or the reject state
HaltingRuleDeltas ==
    { [q \in {"q0"} |-> [a \in {r} |-> Transition(n, w, d)]] :
        r \in {"0", "1"}, n \in {"qAccept", "qReject"}, w \in {"0", "1"}, d \in {"S", "R"} }

InitHalting ==
    /\ spec \in { s \in Specs : /\ s.delta \in HaltingRuleDeltas
                                /\ s.Sigma = {"0", "1"}
                                /\ s.q0 = "q0" }
    /\ input \in StringsUpTo(MaxHaltingLen)
    /\ EngineIdle
    /\ EditorIdle
    /\ DriverIdle

\* two runtimes of one machine, each created from the input of the moment
\* and stepped up to MaxHaltingCalls times
NextHalting ==
    \/ \E i \in RtIds : CreateRuntime(i)
    \/ \E i \in RtIds : calls[i] < MaxHaltingCalls /\ StepCall(i)
    \/ \E in \in StringsUpTo(MaxHaltingLen) : SetInput(in)

SpecHalting == InitHalting /\ [][NextHalting]_vars

----------------------------------------------------------------------------
(* The editor: src/src/components/TuringMachineSpec.tsx and the inline     *)
(* editor of src/src/App.tsx                                               *)

\* the driver's tmSpec while it is null
NullSpec ==
    [Q |-> {}, Sigma |-> {}, Gamma |-> {}, delta |-> EmptyRow,
     q0 |-> "", qAccept |-> "", qReject |-> "", blank |-> ""]

\* the driver's default input, "101"
DefaultInput == <<"1", "0", "1">>

\* the user has filled in the form; nothing is built yet
InitEditor ==
    /\ spec = NullSpec
    /\ input = DefaultInput
    /\ EngineIdle
    /\ formData \in Forms
    /\ built = "none"
    /\ stored = NoItem
    /\ file = NoItem
    /\ loaded = ""
    /\ app \in {"TuringMachineSpec.tsx", "App.tsx"}
    /\ runtime = "null"
    /\ statusMessage = ""
    /\ isRunning = FALSE
    /\ runTimeout = "null"
    /\ timers = {}

\* buildTuringMachine of the component: build, save to localStorage, hand
\* the specification to the parent
BuildTuringMachine ==
    /\ app = "TuringMachineSpec.tsx"
    /\ LET s == buildTuringMachineSpec(formData)
       IN  /\ stored' = serializeTuringMachineSpec(s)
           /\ spec' = s
    /\ built' = "ok"
    /\ op' = [name |-> "buildTuringMachine", rt |-> "", dir |-> ""]
    /\ UNCHANGED <<input, tapes, rts, created, ret, calls, liveCalls, moves, reason,
                   formData, file, loaded, driverVars>>

\* buildTuringMachine of App.tsx: build and keep the specification as tmSpec
BuildTuringMachine_App ==
    /\ app = "App.tsx"
    /\ spec' = buildTuringMachineSpec(formData)
    /\ built' = "ok"
    /\ op' = [name |-> "buildTuringMachine", rt |-> "", dir |-> ""]
    /\ UNCHANGED <<input, tapes, rts, created, ret, calls, liveCalls, moves, reason,
                   formData, stored, file, loaded, driverVars>>

\* loadExample(name): the form becomes the example's; App.tsx offers only
\* the binary increment
LoadExample(example) ==
    /\ \/ app = "TuringMachineSpec.tsx"
       \/ app = "App.tsx" /\ example = BinaryIncrementForm
    /\ formData' = example
    /\ loaded' = "example"
    /\ op' = [name |-> "loadExample", rt |-> "", dir |-> ""]
    /\ UNCHANGED <<spec, input, tapes, rts, created, ret, calls, liveCalls, moves, reason,
                   built, stored, file, driverVars>>

NextEditor ==
    \/ BuildTuringMachine
    \/ BuildTuringMachine_App
    \/ \E example \in {BinaryIncrementForm, InfiniteLoopForm} : LoadExample(example)

SpecEditor == InitEditor /\ [][NextEditor]_vars

\* the names of the four collections of a stored specification
Collections == {"Q", "Sigma", "Gamma", "delta"}

\* the JSON object `o` with the properties named in `missing` left out
without(o, missing) ==
    [o EXCEPT !.Q = IF "Q" \in missing THEN JUndefined ELSE @,
              !.Sigma = IF "Sigma" \in missing THEN JUndefined ELSE @,
              !.Gamma = IF "Gamma" \in missing THEN JUndefined ELSE @,
              !.delta = IF "delta" \in missing THEN JNoTable ELSE @]

\* the texts of a stored item or a chosen file: none, text that is not JSON,
\* JSON that is not an object, and the serialization of a machine with any
\* of its collections left out or with an object in place of the states
Items ==
    { NoItem, [NoItem EXCEPT !.kind = "invalid"], [NoItem EXCEPT !.kind = "null"] }
    \cup { [kind |-> "object", obj |-> without(serializeTuringMachineSpec(s).obj, missing)] :
             s \in { buildTuringMachineSpec(DefaultForm),
                     buildTuringMachineSpec(BinaryIncrementForm),
                     buildTuringMachineSpec(InfiniteLoopForm) },
             missing \in SUBSET Collections }
    \cup { [kind |-> "object",
            obj |-> [serializeTuringMachineSpec(buildTuringMachineSpec(InfiniteLoopForm)).obj
                        EXCEPT !.Q = JObject]] }

\* the component is about to mount; an item may be stored and a file chosen
InitStorage ==
    /\ spec = NullSpec
    /\ input = DefaultInput
    /\ EngineIdle
    /\ formData = DefaultForm
    /\ built = "none"
    /\ stored \in Items
    /\ file \in Items
    /\ loaded = ""
    /\ app = "TuringMachineSpec.tsx"
    /\ runtime = "null"
    /\ statusMessage = ""
    /\ isRunning = FALSE
    /\ runTimeout = "null"
    /\ timers = {}

\* the mount effect of the component: the saved machine, when there is one,
\* becomes the form; Object.entries of an undefined delta throws
Mount ==
    /\ app = "TuringMachineSpec.tsx"
    /\ LET savedSpec == getTuringMachineSpec(stored)
       IN  IF savedSpec.null
           THEN UNCHANGED <<formData, loaded>>
           ELSE IF ~savedSpec.deltaDefined
           THEN /\ loaded' = "mountError"
                /\ UNCHANGED formData
           ELSE /\ formData' = [states |-> ArrayFrom(savedSpec.spec.Q),
                                inputAlphabet |-> ArrayFrom(savedSpec.spec.Sigma),
                                tapeAlphabet |-> ArrayFrom(savedSpec.spec.Gamma),
                                blankSymbol |-> savedSpec.spec.blank,
                                startState |-> savedSpec.spec.q0,
                                acceptState |-> savedSpec.spec.qAccept,
                                rejectState |-> savedSpec.spec.qReject,
                                transitions |-> transitionsOf(savedSpec.spec.delta)]
                /\ loaded' = "storage"
    /\ op' = [name |-> "mount", rt |-> "", dir |-> ""]
    /\ UNCHANGED <<spec, input, tapes, rts, created, ret, calls, liveCalls, moves, reason,
                   built, stored, file, driverVars>>

\* Array.isArray(v) ? v : []
ArrayOr(v) == IF v.kind = "array" THEN v.items ELSE <<>>

\* handleFileLoad with reader.onload: the chosen file's machine becomes the
\* form unless the text does not parse or lacks a collection
HandleFileLoad ==
    /\ app = "TuringMachineSpec.tsx"
    /\ IF file.kind = "absent"
       THEN UNCHANGED <<formData, loaded>>
       ELSE IF file.kind # "object"
       THEN /\ loaded' = "fileError"
            /\ UNCHANGED formData
       ELSE IF \/ file.obj.Q.kind = "undefined"
               \/ file.obj.Sigma.kind = "undefined"
               \/ file.obj.Gamma.kind = "undefined"
               \/ file.obj.delta.kind = "undefined"
       THEN /\ loaded' = "fileInvalid"
            /\ UNCHANGED formData
       ELSE /\ formData' = [states |-> ArrayOr(file.obj.Q),
                            inputAlphabet |-> ArrayOr(file.obj.Sigma),
                            tapeAlphabet |-> ArrayOr(file.obj.Gamma),
                            blankSymbol |-> IF file.obj.blank = "" THEN Blank
                                            ELSE file.obj.blank,
                            startState |-> file.obj.q0,
                            acceptState |-> file.obj.qAccept,
                            rejectState |-> file.obj.qReject,
                            transitions |-> transitionsOf(file.obj.delta.table)]
            /\ loaded' = "file"
    /\ op' = [name |-> "handleFileLoad", rt |-> "", dir |-> ""]
    /\ UNCHANGED <<spec, input, tapes, rts, created, ret, calls, liveCalls, moves, reason,
                   built, stored, file, driverVars>>

NextStorage == Mount \/ HandleFileLoad \/ BuildTuringMachine

SpecStorage == InitStorage /\ [][NextStorage]_vars

\* the machines a caller saves
SavedSpecs ==
    { buildTuringMachineSpec(f) :
        f \in { DefaultForm, BinaryIncrementForm, InfiniteLoopForm,
                [InfiniteLoopForm EXCEPT
                    !.transitions = <<FormTransition("q0", "0", "q0", "0", "R")>>] } }

\* a caller of the storage functions of tm.ts: the item under STORAGE_KEY is
\* any text an earlier session has left; `spec` is the machine saved last,
\* and `built` tells whether the last of the saves and clears was a save
\* ("ok"), a clear ("cleared"), or there has been none ("none")
InitStore ==
    /\ spec = NullSpec
    /\ input = DefaultInput
    /\ EngineIdle
    /\ formData = DefaultForm
    /\ built = "none"
    /\ stored \in Items
    /\ file = NoItem
    /\ loaded = ""
    /\ app = "tm.ts"
    /\ runtime = "null"
    /\ statusMessage = ""
    /\ isRunning = FALSE
    /\ runTimeout = "null"
    /\ timers = {}

\* saveTuringMachineSpec(s)
SaveTuringMachineSpec(s) ==
    /\ app = "tm.ts"
    /\ stored' = serializeTuringMachineSpec(s)
    /\ spec' = s
    /\ built' = "ok"
    /\ op' = [name |-> "saveTuringMachineSpec", rt |-> "", dir |-> ""]
    /\ UNCHANGED <<input, tapes, rts, created, ret, calls, liveCalls, moves, reason,
                   formData, file, loaded, driverVars>>

\* clearTuringMachineSpec that removes nothing
ClearTuringMachineSpec_keepsItem ==
    /\ app = "tm.ts"
    /\ stored' = stored
    /\ spec' = NullSpec
    /\ built' = "cleared"
    /\ op' = [name |-> "clearTuringMachineSpec", rt |-> "", dir |-> ""]
    /\ UNCHANGED <<input, tapes, rts, created, ret, calls, liveCalls, moves, reason,
                   formData, file, loaded, driverVars>>

\* clearTuringMachineSpec()
ClearTuringMachineSpec ==
    /\ app = "tm.ts"
    /\ stored' = NoItem
    /\ spec' = NullSpec
    /\ built' = "cleared"
    /\ op' = [name |-> "clearTuringMachineSpec", rt |-> "", dir |-> ""]
    /\ UNCHANGED <<input, tapes, rts, created, ret, calls, liveCalls, moves, reason,
                   formData, file, loaded, driverVars>>

\* the caller evaluates getTuringMachineSpec() and sees null or a specification
GetTuringMachineSpec ==
    /\ app = "tm.ts"
    /\ loaded' = IF getTuringMachineSpec(stored).null THEN "null" ELSE "spec"
    /\ op' = [name |-> "getTuringMachineSpec", rt |-> "", dir |-> ""]
    /\ UNCHANGED <<spec, input, tapes, rts, created, ret, calls, liveCalls, moves, reason,
                   formData, built, stored, file, driverVars>>

NextStore ==
    \/ \E s \in SavedSpecs : SaveTuringMachineSpec(s)
    \/ ClearTuringMachineSpec
    \/ GetTuringMachineSpec

SpecStore == InitStore /\ [][NextStore]_vars

----------------------------------------------------------------------------
(* The driver: src/src/App.tsx and its later version src/unnamed/part_001  *)
(*                                                                         *)
(* A runtime object is within reach when the driver's `runtime` refers to  *)
(* it or the callback of a pending timer has captured it.  A handler is    *)
(* one action, followed by the render that makes the new state current; an *)
(* object out of reach after it has its slot cleared, and so has a tape    *)
(* array that no object within reach refers to; a new array takes the      *)
(* first address that holds none.  A timer is named by the                 *)
(* object its callback has captured: each press of Run captures the object *)
(* published last, so no two pending timers capture the same one.          *)

\* the names of runtime objects in the driver's heap
DriverRtIds == {"a", "b", "c"}

\* the machines the driver runs: the two examples, the binary increment
\* with the blank entered as an input symbol, and the infinite loop without
\* its rule for the blank
DriverForms ==
    { BinaryIncrementForm, InfiniteLoopForm,
      [BinaryIncrementForm EXCEPT !.inputAlphabet = <<"0", Blank>>],
      [InfiniteLoopForm EXCEPT !.transitions = <<FormTransition("q0", "0", "q0", "0", "R")>>] }

\* the inputs the user types in the driver: the empty one, one that both
\* examples take, and one that the infinite loop's alphabet lacks
DriverInputs == { <<>>, <<"0">>, <<"1">> }

\* a machine has been built; no runtime yet
InitDriver ==
    /\ formData \in DriverForms
    /\ spec = buildTuringMachineSpec(formData)
    /\ built = "ok"
    /\ input = DefaultInput
    /\ tapes = <<>>
    /\ rts = [i \in DriverRtIds |-> NullRt]
    /\ created = [i \in DriverRtIds |-> "none"]
    /\ ret = [i \in DriverRtIds |-> FALSE]
    /\ calls = [i \in DriverRtIds |-> 0]
    /\ liveCalls = [i \in DriverRtIds |-> 0]
    /\ moves = 0
    /\ op = NoOp
    /\ reason = [i \in DriverRtIds |-> ""]
    /\ stored = NoItem
    /\ file = NoItem
    /\ loaded = ""
    /\ app \in {"App.tsx", "part_001"}
    /\ runtime = "null"
    /\ statusMessage = ""
    /\ isRunning = FALSE
    /\ runTimeout = "null"
    /\ timers = {}

\* the objects within reach of a driver whose runtime is rtm and whose
\* pending timers are tms
Reach(rtm, tms) == (IF rtm = "null" THEN {} ELSE {rtm}) \cup tms

\* the slot of a new runtime object, given the timers that stay pending
NewRt(tms) == CHOOSE j \in DriverRtIds : j \notin tms

\* the heap after a handler: per-object values r (runtimes), rr (last
\* results), cl, lc (call counts), rs (halt reasons) and arrays t, of which
\* only what is within reach of the new state stays
Heap(r, rr, cl, lc, rs, t) ==
    LET reach == Reach(runtime', timers')
    IN  /\ rts' = [k \in DriverRtIds |-> IF k \in reach THEN r[k] ELSE NullRt]
        /\ created' = [k \in DriverRtIds |-> IF k \in reach THEN "ok" ELSE "none"]
        /\ ret' = [k \in DriverRtIds |-> IF k \in reach THEN rr[k] ELSE FALSE]
        /\ calls' = [k \in DriverRtIds |-> IF k \in reach THEN cl[k] ELSE 0]
        /\ liveCalls' = [k \in DriverRtIds |-> IF k \in reach THEN lc[k] ELSE 0]
        /\ reason' = [k \in DriverRtIds |-> IF k \in reach THEN rs[k] ELSE ""]
        /\ tapes' = [a \in DOMAIN t |->
                        IF \E k \in reach : r[k].tape = a THEN t[a] ELSE <<>>]

\* the address of a new array: the first one that holds no array
NewAddress ==
    CHOOSE a \in 1..(Len(tapes) + 1) :
        /\ a \in DOMAIN tapes => tapes[a] = <<>>
        /\ \A b \in 1..(a - 1) : tapes[b] # <<>>

\* try { rt = createRuntime(tmSpec, in); setRuntime(rt); setStatusMessage(started) }
\* catch { setStatusMessage(failed) }, with a catch block that also drops the runtime
TryCreate_dropsRuntime(in, started, failed) ==
    LET r == createRuntime(spec, in)
        j == NewRt(timers')
        a == NewAddress
        t == [k \in DOMAIN tapes \cup {a} |-> IF k = a THEN r.tape ELSE tapes[k]]
    IN  IF r.ok
        THEN /\ runtime' = j
             /\ statusMessage' = started
             /\ Heap([rts EXCEPT ![j] = [r.rt EXCEPT !.tape = a]],
                     [ret EXCEPT ![j] = FALSE], [calls EXCEPT ![j] = 0],
                     [liveCalls EXCEPT ![j] = 0], [reason EXCEPT ![j] = ""], t)
        ELSE /\ runtime' = "null"
             /\ statusMessage' = failed
             /\ Heap(rts, ret, calls, liveCalls, reason, tapes)

\* try { rt = createRuntime(tmSpec, in); setRuntime(rt); setStatusMessage(started) }
\* catch { setStatusMessage(failed) }
TryCreate(in, started, failed) ==
    LET r == createRuntime(spec, in)
        j == NewRt(timers')
        a == NewAddress
        t == [k \in DOMAIN tapes \cup {a} |-> IF k = a THEN r.tape ELSE tapes[k]]
    IN  IF r.ok
        THEN /\ runtime' = j
             /\ statusMessage' = started
             /\ Heap([rts EXCEPT ![j] = [r.rt EXCEPT !.tape = a]],
                     [ret EXCEPT ![j] = FALSE], [calls EXCEPT ![j] = 0],
                     [liveCalls EXCEPT ![j] = 0], [reason EXCEPT ![j] = ""], t)
        ELSE /\ runtime' = runtime
             /\ statusMessage' = failed
             /\ Heap(rts, ret, calls, liveCalls, reason, tapes)

\* startSimulation of App.tsx
StartSimulation ==
    /\ app = "App.tsx"
    /\ built = "ok"
    /\ timers' = timers
    /\ TryCreate(input, "started", "startError")
    /\ op' = [name |-> "startSimulation", rt |-> "", dir |-> ""]
    /\ UNCHANGED <<spec, input, moves, editorVars, app, isRunning, runTimeout>>

\* resetSimulation of App.tsx: the status message is emptied, then startSimulation
ResetSimulation ==
    /\ app = "App.tsx"
    /\ built = "ok"
    /\ timers' = timers
    /\ TryCreate(input, "started", "startError")
    /\ op' = [name |-> "resetSimulation", rt |-> "", dir |-> ""]
    /\ UNCHANGED <<spec, input, moves, editorVars, app, isRunning, runTimeout>>

\* the status message after a step call that returned canContinue
HaltMessage(canContinue, state, otherwise) ==
    IF canContinue THEN otherwise
    ELSE IF state = spec.qAccept THEN "accepted"
    ELSE IF state = spec.qReject THEN "rejected"
    ELSE "halted"

\* const canContinue = step(rt); setRuntime({ ...rt }): object i is stepped
\* in place, and a copy of it, which shares its tape array, becomes the
\* driver's runtime.  The copy takes i's slot when no timer keeps i.
StepAndPublish(i) ==
    LET r == step(rts[i], tapes[rts[i].tape])
        j == IF i \in timers' THEN NewRt(timers') ELSE i
        live == IF isHalting(rts[i].state) THEN liveCalls[i] ELSE liveCalls[i] + 1
        why == haltReason(rts[i], tapes[rts[i].tape], reason[i])
    IN  /\ runtime' = j
        /\ Heap([rts EXCEPT ![i] = r.rt, ![j] = r.rt],
                [ret EXCEPT ![i] = r.ret, ![j] = r.ret],
                [calls EXCEPT ![i] = calls[i] + 1, ![j] = calls[i] + 1],
                [liveCalls EXCEPT ![i] = live, ![j] = live],
                [reason EXCEPT ![i] = why, ![j] = why],
                [tapes EXCEPT ![rts[i].tape] = r.tape])

\* stepSimulation, of both drivers; the Step button of part_001 is disabled
\* while isRunning
StepSimulation ==
    /\ runtime # "null"
    /\ app = "part_001" => ~isRunning
    /\ calls[runtime] < MaxDriverCalls
    /\ timers' = timers
    /\ StepAndPublish(runtime)
    /\ LET r == step(rts[runtime], tapes[rts[runtime].tape])
       IN  statusMessage' = HaltMessage(r.ret, r.rt.state, statusMessage)
    /\ op' = [name |-> "stepSimulation", rt |-> runtime, dir |-> ""]
    /\ UNCHANGED <<spec, input, moves, editorVars, app, isRunning, runTimeout>>

\* runSimulation of App.tsx: runStep is called at once on the driver's
\* runtime, and sets a timer for itself when step returned true
RunSimulation_App ==
    /\ app = "App.tsx"
    /\ runtime # "null"
    /\ calls[runtime] < MaxDriverCalls
    /\ Cardinality(timers) + 1 < Cardinality(DriverRtIds)
    /\ LET r == step(rts[runtime], tapes[rts[runtime].tape])
       IN  /\ timers' = IF r.ret THEN timers \cup {runtime} ELSE timers
           /\ statusMessage' = HaltMessage(r.ret, r.rt.state, statusMessage)
    /\ StepAndPublish(runtime)
    /\ op' = [name |-> "runSimulation", rt |-> runtime, dir |-> ""]
    /\ UNCHANGED <<spec, input, moves, editorVars, app, isRunning, runTimeout>>

\* runSimulation of part_001: stopSimulation, then as above, with isRunning
\* and runTimeout kept; the Run button is disabled while isRunning
RunSimulation_part001 ==
    /\ app = "part_001"
    /\ runtime # "null"
    /\ ~isRunning
    /\ calls[runtime] < MaxDriverCalls
    /\ Cardinality(timers \ {runTimeout}) + 1 < Cardinality(DriverRtIds)
    /\ LET r == step(rts[runtime], tapes[rts[runtime].tape])
           stopped == timers \ {runTimeout}
       IN  /\ timers' = IF r.ret THEN stopped \cup {runtime} ELSE stopped
           /\ runTimeout' = IF r.ret THEN runtime ELSE "null"
           /\ isRunning' = r.ret
           /\ statusMessage' = HaltMessage(r.ret, r.rt.state, "running")
    /\ StepAndPublish(runtime)
    /\ op' = [name |-> "runSimulation", rt |-> runtime, dir |-> ""]
    /\ UNCHANGED <<spec, input, moves, editorVars, app>>

\* runStep as a timer callback that sets a timer for itself whatever step returned
RunStepTimer_keepsTimer(i) ==
    /\ i \in timers
    /\ calls[i] < MaxDriverCalls
    /\ LET r == step(rts[i], tapes[rts[i].tape])
       IN  /\ timers' = timers
           /\ statusMessage' = HaltMessage(r.ret, r.rt.state, statusMessage)
           /\ IF app = "part_001"
              THEN /\ runTimeout' = i
                   /\ isRunning' = isRunning
              ELSE UNCHANGED <<isRunning, runTimeout>>
    /\ StepAndPublish(i)
    /\ op' = [name |-> "runStep", rt |-> i, dir |-> ""]
    /\ UNCHANGED <<spec, input, moves, editorVars, app>>

\* runStep as a timer callback that leaves isRunning set when the run halts
RunStepTimer_staysRunning(i) ==
    /\ i \in timers
    /\ calls[i] < MaxDriverCalls
    /\ LET r == step(rts[i], tapes[rts[i].tape])
       IN  /\ timers' = IF r.ret THEN timers ELSE timers \ {i}
           /\ statusMessage' = HaltMessage(r.ret, r.rt.state, statusMessage)
           /\ IF app = "part_001"
              THEN /\ runTimeout' = IF r.ret THEN i ELSE "null"
                   /\ isRunning' = isRunning
              ELSE UNCHANGED <<isRunning, runTimeout>>
    /\ StepAndPublish(i)
    /\ op' = [name |-> "runStep", rt |-> i, dir |-> ""]
    /\ UNCHANGED <<spec, input, moves, editorVars, app>>

\* the callback of the pending timer that has captured object i: runStep
RunStepTimer(i) ==
    /\ i \in timers
    /\ calls[i] < MaxDriverCalls
    /\ LET r == step(rts[i], tapes[rts[i].tape])
       IN  /\ timers' = IF r.ret THEN timers ELSE timers \ {i}
           /\ statusMessage' = HaltMessage(r.ret, r.rt.state, statusMessage)
           /\ IF app = "part_001"
              THEN /\ runTimeout' = IF r.ret THEN i ELSE "null"
                   /\ isRunning' = IF r.ret THEN isRunning ELSE FALSE
              ELSE UNCHANGED <<isRunning, runTimeout>>
    /\ StepAndPublish(i)
    /\ op' = [name |-> "runStep", rt |-> i, dir |-> ""]
    /\ UNCHANGED <<spec, input, moves, editorVars, app>>

\* stopSimulation without clearTimeout
StopSimulation_keepsTimer ==
    /\ app = "part_001"
    /\ timers' = timers
    /\ runTimeout' = "null"
    /\ isRunning' = FALSE
    /\ statusMessage' = IF isRunning THEN "stopped" ELSE statusMessage
    /\ runtime' = runtime
    /\ Heap(rts, ret, calls, liveCalls, reason, tapes)
    /\ op' = [name |-> "stopSimulation", rt |-> "", dir |-> ""]
    /\ UNCHANGED <<spec, input, moves, editorVars, app>>

\* stopSimulation of part_001
StopSimulation ==
    /\ app = "part_001"
    /\ timers' = timers \ {runTimeout}
    /\ runTimeout' = "null"
    /\ isRunning' = FALSE
    /\ statusMessage' = IF isRunning THEN "stopped" ELSE statusMessage
    /\ runtime' = runtime
    /\ Heap(rts, ret, calls, liveCalls, reason, tapes)
    /\ op' = [name |-> "stopSimulation", rt |-> "", dir |-> ""]
    /\ UNCHANGED <<spec, input, moves, editorVars, app>>

\* handleInputChange(newInput) of part_001: setInput, stopSimulation, and a
\* restart on the new input when it is not empty
HandleInputChange(newInput) ==
    /\ app = "part_001"
    /\ built = "ok"
    /\ input' = newInput
    /\ timers' = timers \ {runTimeout}
    /\ runTimeout' = "null"
    /\ isRunning' = FALSE
    /\ IF newInput # <<>>
       THEN TryCreate(newInput, "inputChanged", "inputError")
       ELSE /\ statusMessage' = IF isRunning THEN "stopped" ELSE statusMessage
            /\ runtime' = runtime
            /\ Heap(rts, ret, calls, liveCalls, reason, tapes)
    /\ op' = [name |-> "handleInputChange", rt |-> "", dir |-> ""]
    /\ UNCHANGED <<spec, moves, editorVars, app>>

\* the handlers and timer callbacks of the driver, for a user who presses
\* Run in App.tsx only while no run timer is pending
NextDriver ==
    \/ \E in \in DriverInputs : SetInput(in)
    \/ StartSimulation
    \/ ResetSimulation
    \/ StepSimulation
    \/ timers = {} /\ RunSimulation_App
    \/ RunSimulation_part001
    \/ \E i \in DriverRtIds : RunStepTimer(i)
    \/ StopSimulation
    \/ \E newInput \in DriverInputs : HandleInputChange(newInput)

SpecDriver == InitDriver /\ [][NextDriver]_vars

\* App.tsx on one of the two examples
InitRunTwice ==
    /\ InitDriver
    /\ app = "App.tsx"
    /\ formData \in {InfiniteLoopForm, BinaryIncrementForm}

\* a user who presses Start and Run at any time
NextRunTwice ==
    \/ \E in \in {<<"0">>} : SetInput(in)
    \/ StartSimulation
    \/ RunSimulation_App
    \/ \E i \in DriverRtIds : RunStepTimer(i)

SpecRunTwice == InitRunTwice /\ [][NextRunTwice]_vars

\* a user who lets a run finish: nothing is pressed or typed while a run
\* timer is pending
NextRun ==
    \/ timers = {} /\ \E in \in DriverInputs : SetInput(in)
    \/ timers = {} /\ StartSimulation
    \/ timers = {} /\ StepSimulation
    \/ timers = {} /\ RunSimulation_App
    \/ timers = {} /\ RunSimulation_part001
    \/ \E i \in DriverRtIds : RunStepTimer(i)
    \/ timers = {} /\ \E newInput \in DriverInputs : HandleInputChange(newInput)

\* a pending timer fires after its 500 ms
TimersFire == WF_vars(\E i \in DriverRtIds : RunStepTimer(i))

SpecRun == InitDriver /\ [][NextRun]_vars /\ TimersFire

----------------------------------------------------------------------------
(* Properties *)

\* the contents of runtime i's tape array
TapeOf(i) == tapes[rts[i].tape]

\* this step of the system is a step call on runtime i
StepCalled(i) == created[i] = "ok" /\ op'.name = "step" /\ op'.rt = i /\ calls'[i] = calls[i] + 1

\* this step of the system is a direct move call on runtime i with direction d
MoveCalled(i, d) == created[i] = "ok" /\ op'.name = "move" /\ op'.rt = i /\ op'.dir = d /\ moves' = moves + 1

\* the head displacement a direction stands for
HeadShift(d) == IF d = "L" THEN -1 ELSE IF d = "R" THEN 1 ELSE 0

\* C1: a step call on a non-halted runtime whose (state, symbol under head)
\* has a transition (q', w, d) stores w in the cell that was under the head
\* and changes no other cell, moves the head per d, sets the state to q',
\* adds exactly 1 to steps, and returns true iff q' is neither accept nor reject.
C1_StepFollowsTransition ==
    [][\A i \in RtIds :
        (/\ StepCalled(i)
         /\ rts[i].state \notin {spec.qAccept, spec.qReject}
         /\ rts[i].state \in DOMAIN spec.delta
         /\ TapeOf(i)[rts[i].head + 1] \in DOMAIN spec.delta[rts[i].state])
        => LET old == TapeOf(i)
               h == rts[i].head
               tr == spec.delta[rts[i].state][old[h + 1]]
               new == tapes'[rts[i].tape]
           IN  /\ \E k \in {0, 1} :
                    /\ Len(new) >= Len(old) + k
                    /\ k = 1 => Len(new) = Len(old) + 1
                    /\ \A j \in 0..(Len(old) - 1) :
                          new[j + k + 1] = IF j = h THEN tr.write ELSE old[j + 1]
                    /\ rts'[i].head = h + HeadShift(tr.move) + k
               /\ rts'[i].head \in 0..(Len(new) - 1)
               /\ rts'[i].state = tr.nextState
               /\ rts'[i].steps = rts[i].steps + 1
               /\ ret'[i] = (tr.nextState \notin {spec.qAccept, spec.qReject})
    ]_vars

\* a step that followed a transition, overwrote a cell and returned true
C1_Witness ==
    /\ op.name = "step" /\ ret["a"] = TRUE /\ rts["a"].steps = 1
    /\ input = <<"0">> /\ TapeOf("a") = <<"1", Blank>>

\* C2: a step call on a non-halted runtime with no transition for (state,
\* symbol under head) sets the state to the reject state, adds exactly 1 to
\* steps and returns false.
C2_ImplicitReject ==
    [][\A i \in RtIds :
        (/\ StepCalled(i)
         /\ rts[i].state \notin {spec.qAccept, spec.qReject}
         /\ \/ rts[i].state \notin DOMAIN spec.delta
            \/ TapeOf(i)[rts[i].head + 1] \notin DOMAIN spec.delta[rts[i].state])
        => /\ rts'[i].state = spec.qReject
           /\ rts'[i].steps = rts[i].steps + 1
           /\ ret'[i] = FALSE
    ]_vars

\* the machine without rules has rejected its input in one step
C2_Witness ==
    /\ spec.delta = EmptyRow /\ op.name = "step" /\ calls["a"] = 1
    /\ rts["a"].state = spec.qReject /\ rts["a"].steps = 1 /\ ret["a"] = FALSE

\* C3: a step call on a runtime whose state is the accept or the reject
\* state returns false and leaves tape, head, state and steps unchanged.
C3_HaltIdempotent ==
    [][\A i \in RtIds :
        (StepCalled(i) /\ rts[i].state \in {spec.qAccept, spec.qReject})
        => /\ ret'[i] = FALSE
           /\ rts'[i] = rts[i]
           /\ tapes'[rts[i].tape] = TapeOf(i)
    ]_vars

\* a runtime that halted after at least one step and was then called twice more
C3_Witness ==
    /\ op.name = "step" /\ liveCalls["a"] >= 1 /\ calls["a"] >= liveCalls["a"] + 2
    /\ rts["a"].state \in {spec.qAccept, spec.qReject}

\* C4: move Left with head at index 0 makes the tape one cell longer with a
\* blank as new cell 0, leaves head at 0 and shifts every earlier cell i to
\* i + 1; move Left with head > 0 decrements head and leaves the tape alone.
C4_LeftGrowth ==
    [][\A i \in RtIds :
        MoveCalled(i, "L")
        => LET old == TapeOf(i)
               new == tapes'[rts[i].tape]
           IN  IF rts[i].head = 0
               THEN /\ Len(new) = Len(old) + 1
                    /\ new[1] = spec.blank
                    /\ rts'[i].head = 0
                    /\ \A j \in 1..Len(old) : new[j + 1] = old[j]
               ELSE /\ rts'[i].head = rts[i].head - 1
                    /\ new = old
    ]_vars

\* a direct move Left has just grown a tape that holds the input "01"
C4_Witness ==
    /\ op.name = "move" /\ op.dir = "L" /\ rts["a"].head = 0 /\ calls["a"] = 0
    /\ moves = 1 /\ TapeOf("a") = <<Blank, "0", "1">>

\* C5: move Right increments head; with head at the last index one blank
\* cell is appended and the other cells keep index and symbol, otherwise the
\* tape is unchanged.  move Stay changes neither head nor tape.
C5_RightGrowth ==
    [][\A i \in RtIds :
        /\ MoveCalled(i, "R")
            => LET old == TapeOf(i)
                   new == tapes'[rts[i].tape]
               IN  /\ rts'[i].head = rts[i].head + 1
                   /\ IF rts[i].head = Len(old) - 1
                      THEN /\ Len(new) = Len(old) + 1
                           /\ new[Len(new)] = spec.blank
                           /\ \A j \in 1..Len(old) : new[j] = old[j]
                      ELSE new = old
        /\ MoveCalled(i, "S")
            => /\ rts'[i].head = rts[i].head
               /\ tapes'[rts[i].tape] = TapeOf(i)
    ]_vars

\* two direct moves Right from the start of the input "01": the second grew the tape
C5_Witness ==
    /\ op.name = "move" /\ op.dir = "R" /\ rts["a"].head = 2 /\ calls["a"] = 0
    /\ moves = 2 /\ TapeOf("a") = <<"0", "1", Blank>>

\* C6: a createRuntime(spec, input) that succeeds yields head = 0, state =
\* spec.q0, steps = 0 and a tape holding the characters of input in order,
\* one per cell; for the empty input the tape is one blank cell.
C6_CreateRuntimeResult ==
    [][\A i \in RtIds :
        (/\ op'.name \in {"createRuntime", "createRuntime_part000"}
         /\ op'.rt = i
         /\ created[i] = "none"
         /\ created'[i] = "ok")
        => LET new == tapes'[rts'[i].tape]
           IN  /\ rts'[i].head = 0
               /\ rts'[i].state = spec.q0
               /\ rts'[i].steps = 0
               /\ IF Len(input) = 0
                  THEN new = <<spec.blank>>
                  ELSE /\ Len(new) = Len(input)
                       /\ \A k \in 1..Len(input) : new[k] = input[k]
    ]_vars

\* the validating createRuntime has just succeeded on the empty input
C6_Witness ==
    /\ op.name = "createRuntime" /\ created["a"] = "ok" /\ input = <<>>
    /\ TapeOf("a") = <<Blank>> /\ rts["a"].head = 0

\* C7 as stated: createRuntime fails if and only if the input contains a
\* character that is not in the input alphabet.
C7_FailsIffBadCharacter ==
    \A i \in RtIds :
        created[i] # "none"
        => ((created[i] # "ok") <=> (\E k \in 1..Len(input) : input[k] \notin spec.Sigma))

\* C7 (amended): createRuntime fails if and only if the input contains a
\* character that is not in the input alphabet or the blank symbol is in the
\* input alphabet.
C7_FailsIffBadCharacterOrBlank ==
    \A i \in RtIds :
        created[i] # "none"
        => ((created[i] # "ok")
              <=> \/ \E k \in 1..Len(input) : input[k] \notin spec.Sigma
                  \/ spec.blank \in spec.Sigma)

\* createRuntime failed on an input made of legal characters only
C7_Witness ==
    /\ created["a"] = "BlankInSigma" /\ input = <<"0", "0">>
    /\ spec.Sigma = {"0", Blank} /\ op.name = "createRuntime"

\* C8: createRuntime fails whenever the blank symbol is in the input
\* alphabet, for every input.
C8_FailsOnBlankInSigma ==
    \A i \in RtIds :
        (created[i] # "none" /\ spec.blank \in spec.Sigma) => created[i] # "ok"

\* createRuntime failed on the empty input because the blank is in Sigma
C8_Witness ==
    /\ created["a"] = "BlankInSigma" /\ input = <<>> /\ spec.blank \in spec.Sigma

\* C9: steps is 0 at creation and always equals the number of step calls
\* made while the state was neither accept nor reject.
C9_StepsCountLiveCalls ==
    \A i \in RtIds :
        created[i] = "ok"
        => /\ rts[i].steps = liveCalls[i]
           /\ calls[i] = 0 => rts[i].steps = 0

\* calls of all three kinds: by transition, then halting, then on the halted runtime
C9_Witness ==
    /\ liveCalls["a"] >= 2 /\ calls["a"] > liveCalls["a"] /\ created["a"] = "ok"
    /\ rts["a"].steps >= 2

\* C10: two runtimes created independently from the same spec and input
\* have equal tape, head, state, steps and step return value whenever the same
\* number of step calls has been made on each.
C10_Determinism ==
    /\ (created["a"] # "none" /\ created["b"] # "none") => created["a"] = created["b"]
    /\ (created["a"] = "ok" /\ created["b"] = "ok" /\ calls["a"] = calls["b"])
        => /\ TapeOf("a") = TapeOf("b")
           /\ rts["a"].head = rts["b"].head
           /\ rts["a"].state = rts["b"].state
           /\ rts["a"].steps = rts["b"].steps
           /\ ret["a"] = ret["b"]

\* both runtimes have made three steps and grown their tapes
C10_Witness ==
    /\ created["a"] = "ok" /\ created["b"] = "ok"
    /\ calls["a"] = 3 /\ calls["b"] = 3
    /\ rts["a"].steps = 3 /\ rts["a"].tape # rts["b"].tape
    /\ Len(TapeOf("b")) > Len(input)

\* C11: in every state reached from a successful createRuntime by step calls
\* the tape has at least one cell and the head is an index of the tape, so
\* that read returns the stored cell.
C11_HeadInRange ==
    \A i \in RtIds :
        created[i] = "ok"
        => /\ Len(TapeOf(i)) >= 1
           /\ rts[i].head >= 0
           /\ rts[i].head < Len(TapeOf(i))
           /\ read(rts[i], TapeOf(i)) = TapeOf(i)[rts[i].head + 1]

\* the head stands on the last cell of a tape that grew on the right
C11_Witness ==
    /\ created["a"] = "ok" /\ calls["a"] >= 2 /\ input = <<"0", "1">>
    /\ Len(TapeOf("a")) = 3 /\ rts["a"].head = 2 /\ TapeOf("a")[3] = Blank

\* C12: for a spec whose input alphabet lies within the tape alphabet, whose
\* blank is in the tape alphabet and whose transitions write tape-alphabet
\* symbols only, every tape cell holds a member of the tape alphabet.
C12_TapeWithinGamma ==
    \A i \in RtIds :
        (created[i] = "ok" /\ WellFormedGamma(spec))
        => \A k \in 1..Len(TapeOf(i)) : TapeOf(i)[k] \in spec.Gamma

\* a machine over the tape alphabet {0, blank} has written and grown its tape
C12_Witness ==
    /\ created["a"] = "ok" /\ WellFormedGamma(spec) /\ spec.Gamma = {"0", Blank}
    /\ rts["a"].steps >= 2 /\ Len(TapeOf("a")) > Len(input) /\ input # <<>>

\* the tape without the blanks around its non-blank part
NonBlank(tape) ==
    LET idx == { k \in 1..Len(tape) : tape[k] # spec.blank }
    IN  IF idx = {} THEN <<>>
        ELSE SubSeq(tape, CHOOSE k \in idx : \A j \in idx : k <= j,
                          CHOOSE k \in idx : \A j \in idx : k >= j)

\* C13: the binary-increment machine accepts input "101" with the non-blank
\* tape "110" (after 6 steps) and input "111" with the non-blank tape "1000"
\* (after 8 steps), and rejects neither.
C13_BinaryIncrementScenario ==
    (created["a"] = "ok" /\ spec.delta = BinaryIncrementDelta)
    => /\ input = <<"1", "0", "1">>
            => /\ rts["a"].state # spec.qReject
               /\ calls["a"] >= 6 => rts["a"].state = spec.qAccept
               /\ rts["a"].state = spec.qAccept
                    => NonBlank(TapeOf("a")) = <<"1", "1", "0">>
       /\ input = <<"1", "1", "1">>
            => /\ rts["a"].state # spec.qReject
               /\ calls["a"] >= 8 => rts["a"].state = spec.qAccept
               /\ rts["a"].state = spec.qAccept
                    => NonBlank(TapeOf("a")) = <<"1", "0", "0", "0">>

\* the run on "111" has ended in the accept state with a tape grown on both sides
C13_Witness ==
    /\ created["a"] = "ok" /\ spec.delta = BinaryIncrementDelta
    /\ input = <<"1", "1", "1">> /\ rts["a"].state = "qAccept" /\ rts["a"].steps = 8
    /\ TapeOf("a") = <<"1", "0", "0", "0", Blank>>

\* C14: on the infinite-loop machine and any input over {0} the state is q0
\* after every step and every step call returns true.
C14_InfiniteLoopNeverHalts ==
    (created["a"] = "ok" /\ spec.delta = InfiniteLoopDelta)
    => /\ rts["a"].state = "q0"
       /\ calls["a"] > 0 => ret["a"] = TRUE
       /\ rts["a"].steps = calls["a"]

\* the driver has made all its calls on input "00" and the machine still runs
C14_Witness ==
    /\ created["a"] = "ok" /\ spec.delta = InfiniteLoopDelta /\ input = <<"0", "0">>
    /\ calls["a"] = MaxRunCalls /\ rts["a"].state = "q0" /\ ret["a"] = TRUE

\* the data-model invariants of a TuringMachineSpec
ValidSpec(s) ==
    /\ s.q0 \in s.Q /\ s.qAccept \in s.Q /\ s.qReject \in s.Q
    /\ s.blank \in s.Gamma /\ s.blank \notin s.Sigma
    /\ \A q \in DOMAIN s.delta :
          /\ q \in s.Q
          /\ \A a \in DOMAIN s.delta[q] :
                /\ a \in s.Gamma
                /\ s.delta[q][a].write \in s.Gamma
                /\ s.delta[q][a].nextState \in s.Q

\* C15: building a specification from the editor form fails with a
\* validation error when the specification violates a data-model invariant
\* (start, accept or reject state outside the states; blank outside the tape
\* alphabet or inside the input alphabet; a transition's read or written
\* symbol outside the tape alphabet; a transition's source or target outside
\* the states) and succeeds when it satisfies all of them.
C15_BuildValidates ==
    op.name = "buildTuringMachine"
        => (built = "ok" <=> ValidSpec(buildTuringMachineSpec(formData)))

\* C16: the built table has an entry for (s, a) exactly when some tuple of
\* the list has source s and read symbol a, the entry is that of the last
\* such tuple, and the build leaves the list as it was.
C16_LastTupleWins ==
    [][op'.name = "buildTuringMachine" =>
        /\ formData' = formData
        /\ LET l == formData.transitions
               d == spec'.delta
               Matches(s, a) == { k \in 1..Len(l) : l[k].fromState = s /\ l[k].readSymbol = a }
               Last(K) == CHOOSE k \in K : \A j \in K : j <= k
           IN  /\ \A q \in DOMAIN d : \A a \in DOMAIN d[q] : Matches(q, a) # {}
               /\ \A k \in 1..Len(l) :
                    /\ l[k].fromState \in DOMAIN d
                    /\ l[k].readSymbol \in DOMAIN d[l[k].fromState]
                    /\ LET t == l[Last(Matches(l[k].fromState, l[k].readSymbol))]
                       IN  d[l[k].fromState][l[k].readSymbol]
                             = [nextState |-> t.toState, write |-> t.writeSymbol,
                                move |-> t.direction]
    ]_vars

\* a table built from a list whose second tuple overrides its first
C16_Witness ==
    /\ op.name = "buildTuringMachine"
    /\ Len(formData.transitions) = 3
    /\ formData.transitions[1].fromState = formData.transitions[2].fromState
    /\ formData.transitions[1].readSymbol = formData.transitions[2].readSymbol
    /\ formData.transitions[1].toState # formData.transitions[2].toState
    /\ formData.transitions[3].fromState # formData.transitions[1].fromState

\* C17: deserializing the serialization of a specification gives the
\* specification back: the same three sets, the same table, the same start,
\* accept and reject states and blank.
C17_RoundTrip ==
    (op.name = "buildTuringMachine" /\ app = "TuringMachineSpec.tsx")
        => LET r == deserializeTuringMachineSpec(stored)
           IN  /\ ~r.throws
               /\ r.deltaDefined
               /\ r.spec.Q = spec.Q /\ r.spec.Sigma = spec.Sigma /\ r.spec.Gamma = spec.Gamma
               /\ DOMAIN r.spec.delta = DOMAIN spec.delta
               /\ \A q \in DOMAIN spec.delta :
                     /\ DOMAIN r.spec.delta[q] = DOMAIN spec.delta[q]
                     /\ \A a \in DOMAIN spec.delta[q] : r.spec.delta[q][a] = spec.delta[q][a]
               /\ r.spec.q0 = spec.q0 /\ r.spec.qAccept = spec.qAccept
               /\ r.spec.qReject = spec.qReject /\ r.spec.blank = spec.blank

\* the binary increment machine was built and saved
C17_Witness ==
    /\ op.name = "buildTuringMachine" /\ app = "TuringMachineSpec.tsx"
    /\ spec = buildTuringMachineSpec(BinaryIncrementForm)
    /\ stored.kind = "object"
    /\ Len(stored.obj.Q.items) = 4

\* the item is a JSON object that has all four collections
Complete(item) ==
    /\ item.kind = "object"
    /\ item.obj.Q.kind # "undefined" /\ item.obj.Sigma.kind # "undefined"
    /\ item.obj.Gamma.kind # "undefined" /\ item.obj.delta.kind # "undefined"

\* C18: a payload that lacks any of the four collections (states, input
\* alphabet, tape alphabet, transition table) is rejected: neither mounting
\* the editor on a stored payload nor loading a file puts a machine from
\* such a payload into the editor's form.
C18_IncompleteRejected ==
    [][/\ (op'.name = "mount" /\ loaded' = "storage") => Complete(stored)
       /\ (op'.name = "handleFileLoad" /\ loaded' = "file") => Complete(file)
    ]_vars

\* what the caller sees of runtime i after a step call: the call's result
\* and the runtime's tape, head, state and step count
Report(i) ==
    [ret |-> ret[i], tape |-> TapeOf(i), head |-> rts[i].head,
     state |-> rts[i].state, steps |-> rts[i].steps]

\* C19: what a halting step call reports (its result and the runtime's
\* observable state) tells the caller why the machine halted: two halted
\* runtimes of one machine with the same report halted for the same reason,
\* be it accept, a transition into the reject state, or a missing transition.
C19_ReasonTold ==
    \A i, j \in RtIds :
        (/\ reason[i] # "" /\ reason[j] # ""
         /\ calls[i] = 1 /\ calls[j] = 1
         /\ Report(i) = Report(j))
        => reason[i] = reason[j]

\* createRuntime(s, in) throws: a character of the input is outside the
\* input alphabet, or the blank is in the input alphabet
Throws(s, in) == (\E k \in 1..Len(in) : in[k] \notin s.Sigma) \/ s.blank \in s.Sigma

\* C20: when createRuntime throws during Start, Reset or an input change,
\* the driver's runtime is the object it was, with the tape, head, state and
\* steps it had; no new runtime replaces it, and the status message, which
\* reports the error, is all that the failed attempt changes (the input
\* change itself also records the new input).
C20_FailedStartKeepsRuntime ==
    [][/\ (op'.name \in {"startSimulation", "resetSimulation"} /\ Throws(spec, input))
            => /\ statusMessage' = "startError"
               /\ UNCHANGED <<runtime, rts, tapes, created, spec, input, isRunning,
                              runTimeout, timers>>
       /\ (op'.name = "handleInputChange" /\ input' # <<>> /\ Throws(spec, input'))
            => /\ statusMessage' = "inputError"
               /\ UNCHANGED <<runtime, spec>>
               /\ runtime # "null" =>
                    /\ rts'[runtime] = rts[runtime]
                    /\ tapes'[rts[runtime].tape] = tapes[rts[runtime].tape]
    ]_vars

\* a Start that failed on a bad input while a stepped runtime was in place
C20_Witness ==
    /\ op.name = "startSimulation" /\ statusMessage = "startError"
    /\ runtime # "null" /\ rts[runtime].steps = 2
    /\ Blank \notin spec.Sigma

\* the handlers and callbacks of the driver that call step
StepHandlers == {"stepSimulation", "runSimulation", "runStep"}

\* this step of the system is a handler or callback of the driver calling
\* step on object i
DriverStepCalled(i) ==
    /\ op'.name \in StepHandlers /\ op'.rt = i
    /\ created[i] = "ok" /\ calls'[i] = calls[i] + 1

\* C21: no mutable state is shared between runtimes: a step applied to one
\* runtime leaves the tape, head, state and steps of every other runtime
\* value the program holds unchanged.  In the driver the values held
\* besides the stepped object are the objects that pending timers have
\* captured; the published copy of an object shares its tape array.
C21_NoSharedState ==
    [][\A i \in DriverRtIds : \A k \in (timers \cap timers') \ {i} :
        DriverStepCalled(i)
        => /\ rts'[k] = rts[k]
           /\ tapes'[rts[k].tape] = tapes[rts[k].tape]
    ]_vars

\* the positions of the reference machine's tape that a run within the
\* bounds can reach; every position outside holds the blank
Window == (0 - MaxCalls - 1)..(MaxInputLen + MaxCalls + 1)

\* the reference machine on input `in`: a tape that is a function from
\* integer positions to symbols, blank except for the input at 0..n-1, an
\* integer head, and `low`, the least position the head has visited
AbstractInit(in) ==
    [tape |-> [p \in Window |-> IF p \in 0..(Len(in) - 1) THEN in[p + 1] ELSE spec.blank],
     head |-> 0, low |-> 0, state |-> spec.q0, steps |-> 0]

\* one step of the reference machine
AbstractStep(c) ==
    IF c.state \in {spec.qAccept, spec.qReject} THEN c
    ELSE IF \/ c.state \notin DOMAIN spec.delta
            \/ c.tape[c.head] \notin DOMAIN spec.delta[c.state]
    THEN [c EXCEPT !.state = spec.qReject, !.steps = c.steps + 1]
    ELSE LET tr == spec.delta[c.state][c.tape[c.head]]
             h == c.head + HeadShift(tr.move)
         IN  [tape |-> [c.tape EXCEPT ![c.head] = tr.write],
              head |-> h,
              low |-> IF h < c.low THEN h ELSE c.low,
              state |-> tr.nextState,
              steps |-> c.steps + 1]

\* the reference machine after n steps on input `in`
RECURSIVE AbstractRun(_, _)
AbstractRun(in, n) ==
    IF n = 0 THEN AbstractInit(in)
    ELSE CHOOSE r \in {AbstractStep(c) : c \in {AbstractRun(in, n - 1)}} : TRUE

\* runtime i, after its calls[i] step calls, against the reference machine
\* after as many steps, with the offset k
Refines(i, k) ==
    \A c \in {AbstractRun(input, calls[i])} : \A tape \in {TapeOf(i)} :
        /\ rts[i].head = c.head + k
        /\ \A j \in 0..(Len(tape) - 1) : tape[j + 1] = c.tape[j - k]
        /\ \A p \in Window : (p + k) \notin 0..(Len(tape) - 1) => c.tape[p] = spec.blank
        /\ rts[i].state = c.state
        /\ rts[i].steps = c.steps

\* the number of cells the reference machine's head has been to the left
\* of position 0
Offset(i) == 0 - AbstractRun(input, calls[i]).low

\* C22: the materialized tape refines an abstract two-way infinite tape:
\* after createRuntime and after every step call, with k the number of
\* left-growth events so far, head = abstractHead + k, tape[i] =
\* abstractTape(i - k) for every materialized index i, every abstract
\* position that is not materialized is blank, and state and steps are equal;
\* k starts at 0 and a step call adds 1 to it exactly when it grows the tape
\* on the left.
C22_RefinesInfiniteTape ==
    [][/\ created'["a"] = "ok" => Refines("a", Offset("a"))'
       /\ (created["a"] = "none" /\ created'["a"] = "ok") => Offset("a")' = 0
       /\ StepCalled("a")
          => Offset("a")' = Offset("a")
                + (IF /\ Len(tapes'[rts["a"].tape]) = Len(TapeOf("a")) + 1
                      /\ rts'["a"].head = 0
                   THEN 1 ELSE 0)
    ]_vars

\* the tape has grown on the left and on the right, and a symbol has been
\* written to the left of the input
C22_Witness ==
    /\ op.name = "step" /\ created["a"] = "ok"
    /\ Offset("a") >= 1
    /\ Len(TapeOf("a")) >= Len(input) + Offset("a") + 1
    /\ \E p \in Window : p < 0 /\ AbstractRun(input, calls["a"]).tape[p] # spec.blank

\* C23: after a new session starts (Start or Reset in App.tsx, an input
\* change in part_001), the runtime shown is the freshly created one and
\* remains so: no timer callback of an earlier Run steps the discarded
\* runtime or publishes it again.  An object belongs to the session of the
\* runtime shown when it has the same tape array, which createRuntime makes
\* anew for every session; so every timer callback that runs steps an
\* object of the session shown.
C23_NewSessionSupersedes ==
    [][\A i \in timers :
        DriverStepCalled(i) /\ op'.name = "runStep"
        => runtime # "null" /\ rts[i].tape = rts[runtime].tape
    ]_vars

\* the number of step calls that change the configuration (rt, tape) until
\* it is halted, or -1 when there are more than `fuel` of them
RECURSIVE StepsToHalt(_, _, _)
StepsToHalt(rt, tape, fuel) ==
    IF isHalting(rt.state) THEN 0
    ELSE IF fuel = 0 THEN 0 - 1
    ELSE CHOOSE n \in {IF k = 0 - 1 THEN k ELSE k + 1 :
                          k \in {StepsToHalt(r.rt, r.tape, fuel - 1) :
                                    r \in {step(rt, tape)}}} : TRUE

\* the steps that object i is away from its halt, -1 when it does not halt
\* within the calls the driver makes
StepsLeft(i) == StepsToHalt(rts[i], tapes[rts[i].tape], MaxDriverCalls)

\* this step of the system is runStep acting on object i, called by
\* runSimulation or by a timer
RunStepped(i) == op'.name \in {"runSimulation", "runStep"} /\ op'.rt = i /\ created[i] = "ok"

\* C24: Run drives the engine to its halt.  Every runStep makes one step
\* call; a timer callback runs only when the previous call returned true;
\* when the call returns true a timer is set for the same object, and when it
\* returns false no timer stays and the status message says accepted exactly
\* when the state is the accept state and rejected when it is the reject
\* state.  For an object n steps away from its halt every runStep of an
\* uninterrupted Run that makes a state-changing call leaves it one step
\* nearer, so that the Run makes exactly n of them; and a Run of an object
\* that halts within the calls the driver makes does end with the verdict.
C24_RunDrivesToHalt ==
    /\ [][\A i \in DriverRtIds :
            RunStepped(i)
            => /\ calls'[i] = calls[i] + 1
               /\ op'.name = "runStep" => ret[i] = TRUE /\ i \in timers
               /\ ret'[i] = TRUE => timers' = {i}
               /\ ret'[i] = FALSE
                  => /\ timers' = {}
                     /\ rts'[i].state \in {spec.qAccept, spec.qReject}
                     /\ statusMessage' = "accepted" <=> rts'[i].state = spec.qAccept
                     /\ rts'[i].state = spec.qReject => statusMessage' = "rejected"
               /\ StepsLeft(i) > 0
                  => /\ StepsLeft(i)' = StepsLeft(i) - 1
                     /\ liveCalls'[i] = liveCalls[i] + 1
                     /\ ret'[i] = (StepsLeft(i) > 1)
               /\ StepsLeft(i) = 0 => liveCalls'[i] = liveCalls[i] /\ ret'[i] = FALSE
       ]_vars
    /\ \A i \in DriverRtIds :
          (i \in timers /\ StepsLeft(i) > 0 /\ calls[i] + StepsLeft(i) <= MaxDriverCalls)
          ~> (timers = {} /\ statusMessage \in {"accepted", "rejected"})

\* a Run that took two state-changing calls, the second by a timer, has
\* ended with the machine accepting
C24_Witness ==
    /\ op.name = "runStep" /\ timers = {} /\ statusMessage = "accepted"
    /\ runtime # "null" /\ rts[runtime].state = spec.qAccept
    /\ rts[runtime].steps = 2 /\ liveCalls[runtime] = 2 /\ ret[runtime] = FALSE

\* this step of the system leaves the driver's runtime, with its tape, head,
\* state and steps, as it was, and calls no step on it
RuntimeKept ==
    /\ runtime' = runtime
    /\ runtime # "null"
       => /\ rts'[runtime] = rts[runtime]
          /\ tapes'[rts[runtime].tape] = tapes[rts[runtime].tape]
          /\ calls'[runtime] = calls[runtime]

\* C25: in the driver with a Stop control (part_001), once stopSimulation
\* has run no run timer is pending and the runtime is as it was; and while
\* no run timer is pending nothing steps the runtime but Step and Run: any
\* other handler leaves runtime, tape, head, state and steps as they were,
\* or (an input change) replaces the runtime by a new one that no step has
\* been applied to.
C25_StopCancels ==
    [][app = "part_001"
       => /\ op'.name = "stopSimulation"
             => /\ timers' = {} /\ runTimeout' = "null" /\ isRunning' = FALSE
                /\ RuntimeKept
          /\ (timers = {} /\ op'.name \notin {"stepSimulation", "runSimulation"})
             => \/ RuntimeKept
                \/ /\ op'.name = "handleInputChange"
                   /\ calls'[runtime'] = 0 /\ rts'[runtime'].steps = 0
    ]_vars

\* a run of a machine that had not halted has been stopped after two steps
C25_Witness ==
    /\ app = "part_001" /\ op.name = "stopSimulation" /\ statusMessage = "stopped"
    /\ timers = {} /\ runtime # "null"
    /\ rts[runtime].steps = 2 /\ ret[runtime] = TRUE
    /\ rts[runtime].state \notin {spec.qAccept, spec.qReject}

\* C26: in App.tsx at most one timer chain drives a runtime at any time:
\* no two pending step timers have captured objects of one session, which
\* are the objects that have one tape array.
C26_OneTimerChain ==
    \A i \in timers : \A k \in timers : rts[i].tape = rts[k].tape => i = k

\* the number that the binary numeral s stands for
RECURSIVE Value(_)
Value(s) ==
    IF s = <<>> THEN 0
    ELSE 2 * Value(SubSeq(s, 1, Len(s) - 1)) + (IF s[Len(s)] = "1" THEN 1 ELSE 0)

\* the binary numeral of v written with `digits` digits
RECURSIVE Numeral(_, _)
Numeral(v, digits) ==
    IF digits = 0 THEN <<>>
    ELSE Append(Numeral(v \div 2, digits - 1), IF v % 2 = 1 THEN "1" ELSE "0")

\* the number of 1s at the end of s
RECURSIVE TrailingOnes(_)
TrailingOnes(s) ==
    IF s = <<>> \/ s[Len(s)] # "1" THEN 0
    ELSE 1 + TrailingOnes(SubSeq(s, 1, Len(s) - 1))

\* C27: on the binary-increment machine and a non-empty input over {0,1}
\* of length n with t trailing 1s, the run never reaches the reject state,
\* is not halted before n + 2 + t steps, is in the accept state from the
\* (n + 2 + t)-th step call on with steps = n + 2 + t, and then the non-blank
\* tape is the binary numeral of (input value + 1) with n digits, or with
\* n + 1 digits when the input is all 1s.
C27_BinaryIncrementCorrect ==
    (created["a"] = "ok" /\ spec.delta = BinaryIncrementDelta /\ input # <<>>)
    => LET n == Len(input)
           t == TrailingOnes(input)
           digits == IF t = n THEN n + 1 ELSE n
       IN  /\ rts["a"].state # spec.qReject
           /\ rts["a"].steps <= n + 2 + t
           /\ rts["a"].steps < n + 2 + t => rts["a"].state # spec.qAccept
           /\ calls["a"] >= n + 2 + t => rts["a"].state = spec.qAccept
           /\ rts["a"].state = spec.qAccept
              => /\ rts["a"].steps = n + 2 + t
                 /\ NonBlank(TapeOf("a")) = Numeral(Value(input) + 1, digits)

\* the run on "011" has ended after 3 + 2 + 2 steps with "100" on the tape,
\* and the run on "11" after 2 + 2 + 2 steps with "100"
C27_Witness ==
    /\ created["a"] = "ok" /\ spec.delta = BinaryIncrementDelta
    /\ rts["a"].state = spec.qAccept /\ NonBlank(TapeOf("a")) = <<"1", "0", "0">>
    /\ \/ input = <<"0", "1", "1">> /\ rts["a"].steps = 7 /\ calls["a"] = 8
       \/ input = <<"1", "1">> /\ rts["a"].steps = 6 /\ calls["a"] = 7

\* C28: the return value of step agrees with the state it leaves: every
\* step call that the driver makes returns false if and only if the state
\* after the call is the accept or the reject state; and neither
\* stepSimulation nor runStep ever sets the status message of the third
\* branch ("Machine halted in state ...").
C28_ReturnAgreesWithState ==
    [][/\ \A i \in DriverRtIds :
            DriverStepCalled(i)
            => (ret'[i] = FALSE <=> rts'[i].state \in {spec.qAccept, spec.qReject})
       /\ statusMessage' # "halted"
    ]_vars

\* a step call has returned false on a missing transition and the driver
\* has said rejected
C28_Witness ==
    /\ op.name \in StepHandlers /\ runtime # "null"
    /\ ret[runtime] = FALSE /\ reason[runtime] = "noRule"
    /\ rts[runtime].state = spec.qReject /\ statusMessage = "rejected"

\* C29: an implicit reject changes nothing but state and steps: after a
\* step call that found no transition for (state, symbol under head) the
\* runtime has the same tape array with the same length and contents, and
\* the same head.
C29_ImplicitRejectKeepsTape ==
    [][\A i \in RtIds :
        (/\ StepCalled(i)
         /\ rts[i].state \notin {spec.qAccept, spec.qReject}
         /\ \/ rts[i].state \notin DOMAIN spec.delta
            \/ TapeOf(i)[rts[i].head + 1] \notin DOMAIN spec.delta[rts[i].state])
        => /\ rts'[i].tape = rts[i].tape
           /\ Len(tapes'[rts[i].tape]) = Len(TapeOf(i))
           /\ \A k \in 1..Len(TapeOf(i)) : tapes'[rts[i].tape][k] = TapeOf(i)[k]
           /\ rts'[i].head = rts[i].head
    ]_vars

\* a run has written, moved right and grown the tape, and then found no
\* transition for a symbol of the input
C29_Witness ==
    /\ op.name = "step" /\ reason["a"] = "noRule" /\ rts["a"].state = spec.qReject
    /\ rts["a"].steps >= 2 /\ rts["a"].head >= 1
    /\ TapeOf("a")[rts["a"].head + 1] # spec.blank
    /\ Len(TapeOf("a")) > Len(input)

\* the transition that a step call on runtime i follows is one with
\* direction Stay
StaysPut(i) ==
    /\ rts[i].state \in DOMAIN spec.delta
    /\ TapeOf(i)[rts[i].head + 1] \in DOMAIN spec.delta[rts[i].state]
    /\ spec.delta[rts[i].state][TapeOf(i)[rts[i].head + 1]].move = "S"

\* a step call on runtime i finds no transition
NoRule(i) ==
    \/ rts[i].state \notin DOMAIN spec.delta
    \/ TapeOf(i)[rts[i].head + 1] \notin DOMAIN spec.delta[rts[i].state]

\* C30: the tape of a created runtime is never longer than max(1, input
\* length) + steps; a step call never makes it shorter and makes it at most
\* one cell longer; and a step with direction Stay, an implicit reject and
\* a call on a halted runtime leave its length unchanged.
C30_TapeLengthBounded ==
    [][/\ created'["a"] = "ok"
          => Len(TapeOf("a"))' <= (IF Len(input') > 1 THEN Len(input') ELSE 1)
                                   + rts'["a"].steps
       /\ StepCalled("a")
          => /\ Len(TapeOf("a"))' >= Len(TapeOf("a"))
             /\ Len(TapeOf("a"))' <= Len(TapeOf("a")) + 1
             /\ (\/ rts["a"].state \in {spec.qAccept, spec.qReject}
                 \/ NoRule("a")
                 \/ StaysPut("a"))
                => Len(TapeOf("a"))' = Len(TapeOf("a"))
    ]_vars

\* a tape that has grown on both sides, after a last step with direction
\* Stay that left its length as it was
C30_Witness ==
    /\ op.name = "step" /\ spec.delta = BinaryIncrementDelta /\ input = <<"1">>
    /\ rts["a"].state = spec.qAccept /\ rts["a"].steps = 4
    /\ TapeOf("a") = <<"1", "0", Blank>>

\* C31: on the infinite-loop machine, for a non-empty input 0^n the tape is
\* never longer than n + 1: from the n-th step on it is the input followed
\* by one blank, with the head going back and forth between the cells n and
\* n - 1; for the empty input every step prepends a blank, so that the tape
\* has 1 + steps cells, all blank, with the head on the first.
C31_InfiniteLoopTape ==
    (created["a"] = "ok" /\ spec.delta = InfiniteLoopDelta)
    => LET n == Len(input)
           k == rts["a"].steps
       IN  /\ rts["a"].steps = calls["a"]
           /\ n >= 1
              => /\ Len(TapeOf("a")) <= n + 1
                 /\ k < n => TapeOf("a") = input /\ rts["a"].head = k
                 /\ k >= n
                    => /\ TapeOf("a") = Append(input, spec.blank)
                       /\ rts["a"].head = IF (k - n) % 2 = 0 THEN n ELSE n - 1
           /\ n = 0
              => /\ Len(TapeOf("a")) = 1 + k
                 /\ \A j \in 1..Len(TapeOf("a")) : TapeOf("a")[j] = spec.blank
                 /\ rts["a"].head = 0

\* the run on "00" has gone round its cycle more than once, or the run on
\* the empty input has grown the tape to 1 + MaxRunCalls cells
C31_Witness ==
    /\ created["a"] = "ok" /\ spec.delta = InfiniteLoopDelta /\ op.name = "step"
    /\ \/ input = <<"0", "0">> /\ rts["a"].steps = 7 /\ rts["a"].head = 1
          /\ Len(TapeOf("a")) = 3
       \/ input = <<>> /\ rts["a"].steps = MaxRunCalls
          /\ Len(TapeOf("a")) = 1 + MaxRunCalls

\* the specifications r and s have the same three sets, the same table and
\* the same start, accept and reject states and blank
SameSpec(r, s) ==
    /\ r.Q = s.Q /\ r.Sigma = s.Sigma /\ r.Gamma = s.Gamma
    /\ DOMAIN r.delta = DOMAIN s.delta
    /\ \A q \in DOMAIN s.delta :
          /\ DOMAIN r.delta[q] = DOMAIN s.delta[q]
          /\ \A a \in DOMAIN s.delta[q] : r.delta[q][a] = s.delta[q][a]
    /\ r.q0 = s.q0 /\ r.qAccept = s.qAccept
    /\ r.qReject = s.qReject /\ r.blank = s.blank

\* C32: after any sequence of saves and clears, getTuringMachineSpec
\* returns a specification equal to the one saved last when the last of
\* them was a save, and null when it was a clear or when there has been
\* none and no item is stored; when the stored text is not JSON, or is JSON
\* that is not an object, it returns null; and null is returned in no other
\* case: any stored JSON object comes back as a specification.
C32_StoreProtocol ==
    [][op'.name = "getTuringMachineSpec"
       => LET r == getTuringMachineSpec(stored)
          IN  /\ loaded' \in {"null", "spec"}
              /\ built = "ok"
                 => /\ loaded' = "spec" /\ r.deltaDefined
                    /\ SameSpec(r.spec, spec)
              /\ built = "cleared" => loaded' = "null"
              /\ (built = "none" /\ stored.kind = "absent") => loaded' = "null"
              /\ stored.kind \in {"invalid", "null"} => loaded' = "null"
              /\ loaded' = "null" <=> stored.kind # "object"
    ]_vars

\* the binary increment has been saved and read back
C32_Witness ==
    /\ op.name = "getTuringMachineSpec" /\ loaded = "spec" /\ built = "ok"
    /\ spec = buildTuringMachineSpec(BinaryIncrementForm)
    /\ SameSpec(getTuringMachineSpec(stored).spec, buildTuringMachineSpec(BinaryIncrementForm))

\* the Step and Run buttons of part_001 can be pressed
ControlsEnabled == runtime # "null" /\ ~isRunning

\* C33: in part_001 the running flag tracks the timer: between handlers
\* and callbacks isRunning is true if and only if a run timer is pending,
\* that timer is the one runTimeout names, and with a runtime and no run
\* timer pending (the run has halted or was stopped) the Step and Run
\* controls are enabled.
C33_RunningTracksTimer ==
    app = "part_001"
    => /\ isRunning <=> timers # {}
       /\ timers = IF runTimeout = "null" THEN {} ELSE {runTimeout}
       /\ (runtime # "null" /\ timers = {}) => ControlsEnabled

\* a run has halted in a timer callback and the controls are enabled again
C33_Witness ==
    /\ app = "part_001" /\ op.name = "runStep" /\ runtime # "null"
    /\ ret[runtime] = FALSE /\ rts[runtime].steps = 2
    /\ timers = {} /\ ControlsEnabled

============================================================================
